---- MODULE Spec2Model ----
(***************************************************************************)
(* A model of the claude-telegram daemon: the transcript watchers          *)
(* (transcript_watcher.py), the orchestration loop (telegram-daemon.py)    *)
(* and the callback handler of the poller (telegram_poller.py).            *)
(*                                                                         *)
(* Time is counted in units of 0.4 s, so NOTIFY_DELAY (0.4 s) is 1 and the *)
(* two 4.0 s thresholds are 10.  The code only ever compares differences   *)
(* of time.time() readings with these thresholds.  The clock moves while   *)
(* the loop sleeps; one pass of the loop takes no time.                    *)
(*                                                                         *)
(* A transcript is a sequence of JSON records; its last record may be      *)
(* half written.  A complete record takes two units of file offset, a half *)
(* written one takes one, so a file offset is a number in 0..2*Len.        *)
(*                                                                         *)
(* Calls to the chat service are modelled by the outcomes the code         *)
(* distinguishes: a send returns a message id or nothing, deleteMessage    *)
(* returns ok or not, tmux send-keys succeeds iff the pane exists.  Calls  *)
(* whose result the code never looks at (editMessageReplyMarkup,           *)
(* answerCallbackQuery, sendChatAction) are taken to be applied.           *)
(*                                                                         *)
(* A button press is an input from the network: any message id with any    *)
(* payload of the daemon's buttons.                                        *)
(***************************************************************************)
EXTENDS Integers, Sequences, FiniteSets, TLC

\* ------------------------------------------------------------------ bounds
MaxLines == 3      \* records written to all transcripts together
MaxTime == 13      \* the clock runs from 1 to here
MaxMsgs == 3       \* messages in the chat
MaxRestarts == 1   \* daemon restarts
MaxKeys == 2       \* texts delivered to panes
MaxPosts == 2      \* untracked messages sent to the group
MaxTopics == 2     \* topics created in the group
MaxUpdates == 5    \* updates the chat service hands to the bot
MaxText == 8       \* characters of a message to be split
MaxIds == 3        \* messages whose entries go to the state file

\* ------------------------------------------------------- program constants
NOTIFY_DELAY == 1
QUICK_RESPONSE_THRESHOLD == 10
IDLE_SUPERSESSION_THRESHOLD == 10
SKIP_TOOLS == {"BashOutput", "KillShell", "AgentOutputTool", "TodoWrite"}

\* ------------------------------------------------------------------ inputs
Panes == {"p1", "p2"}
Paths == {"t1", "t2"}
\* tmux list-panes order, and the newest transcript under each pane's cwd
PaneList == <<"p1", "p2">>
TranscriptOf(pane) == IF pane = "p1" THEN "t1" ELSE "t2"
\* the id of the assistant message an agent is writing: unique to the agent
MsgIdOf(path) == IF path = "t1" THEN "m1" ELSE "m2"
\* tool_use blocks: ids are handed out in this order; S is an internal tool
NormalCalls == <<[id |-> "A", name |-> "Bash"], [id |-> "B", name |-> "Bash"]>>
SkipCall == [id |-> "S", name |-> "TodoWrite"]
\* the clock is sampled at the scale of each of the daemon's two timers
TimeSteps == {NOTIFY_DELAY, QUICK_RESPONSE_THRESHOLD}
\* the payloads of the buttons the daemon puts under a message
CbData == {"y", "n", "_"}

\* ----------------------------------------------------- transcript records
AssistantRec(id, text, tools) ==
  [id |-> id, text |-> text, tools |-> tools, type |-> "assistant", results |-> {}]
UserRec(results) ==
  [id |-> "", text |-> FALSE, tools |-> <<>>, type |-> "user", results |-> results]
CompactRec ==
  [id |-> "", text |-> FALSE, tools |-> <<>>, type |-> "system", results |-> {}]
\* What the decoder yields for a piece of a line that is not a whole record
Fragment ==
  [id |-> "", text |-> FALSE, tools |-> <<>>, type |-> "fragment", results |-> {}]

SeqToSet(s) == {s[i] : i \in DOMAIN s}

FileSize(f) == 2 * Len(f.lines) - (IF f.partial THEN 1 ELSE 0)

\* Whole records of the file (the json.loads that succeed in a full scan)
WholeLines(f) ==
  IF f.partial THEN SubSeq(f.lines, 1, Len(f.lines) - 1) ELSE f.lines

\* for line in f, after f.seek(position): the pieces read up to end of file.
\* A piece that starts or ends inside a record does not decode.
RECURSIVE ReadFrom(_, _)
ReadFrom(f, pos) ==
  IF pos >= FileSize(f) THEN <<>>
  ELSE LET i == (pos \div 2) + 1
           whole == (pos % 2 = 0) /\ (i < Len(f.lines) \/ ~f.partial)
       IN <<IF whole THEN f.lines[i] ELSE Fragment>>
            \o ReadFrom(f, IF 2 * i <= FileSize(f) THEN 2 * i ELSE FileSize(f))

\* --------------------------------------------------------------- watcher
PendingTool(call, text, path, pane, t) ==
  [pane |-> pane, tool_id |-> call.id, tool_name |-> call.name,
   assistant_text |-> text, transcript_path |-> path, detected_at |-> t]

IdleEvent(path, pane, id) ==
  [pane |-> pane, transcript_path |-> path, msg_id |-> id]

\* TranscriptWatcher(path, pane, cwd, position)
NewWatcher(path, pane, pos) ==
  [pane |-> pane, path |-> path, position |-> pos,
   notified_tools |-> {}, tool_results |-> {},
   pending_tools |-> {}, tool_queue |-> <<>>,
   compactions |-> 0, idle_events |-> <<>>,
   last_idle_msg_id |-> "", tool_use_msg_ids |-> {},
   \* history of this watcher object, not read by the code: the offset it
   \* was attached at, the ids appended to tool_queue in that order, the ids
   \* earlier calls of check() returned, what the last call returned, the
   \* ages at which detected tools were dropped because their result came,
   \* the message ids of the IdleEvents appended to idle_events, in order
   attached |-> pos, detected |-> <<>>, returned |-> {}, ready |-> <<>>,
   dropped |-> {}, idled |-> <<>>]

PendingIds(w) == {p.tool_id : p \in w.pending_tools}
PendingOf(w, id) == CHOOSE p \in w.pending_tools : p.tool_id = id

HandleCompaction(w) == [w EXCEPT !.compactions = @ + 1]

HandleToolResult(w, rec, t) ==
  [w EXCEPT !.tool_results = @ \cup rec.results,
            !.notified_tools = @ \ rec.results,
            !.pending_tools = {p \in @ : p.tool_id \notin rec.results},
            !.dropped = @ \cup {t - p.detected_at :
                                   p \in {q \in w.pending_tools : q.tool_id \in rec.results}}]

QueueAppendMutant(q, id) == <<id>> \o q
QueueAppend(q, id) == Append(q, id)

\* the loop over tool_calls of one assistant record
RECURSIVE DetectTools(_, _, _, _)
DetectTools(w, calls, text, t) ==
  IF calls = <<>> THEN w
  ELSE LET c == Head(calls)
           skip == \/ c.name \in SKIP_TOOLS
                   \/ c.id \in w.notified_tools
                   \/ c.id \in w.tool_results
                   \/ c.id \in PendingIds(w)
           w1 == IF skip THEN w
                 ELSE [w EXCEPT
                         !.tool_queue = QueueAppend(@, c.id),
                         !.pending_tools = @ \cup {PendingTool(c, text, w.path, w.pane, t)},
                         !.detected = Append(@, c.id)]
       IN DetectTools(w1, Tail(calls), text, t)

ProcessAssistant(w, rec, t) ==
  LET hasTools == rec.tools # <<>>
      w1 == IF hasTools /\ rec.id # ""
            THEN [w EXCEPT !.tool_use_msg_ids = @ \cup {rec.id},
                           !.last_idle_msg_id = IF @ = rec.id THEN "" ELSE @]
            ELSE w
  IN IF rec.text /\ ~hasTools /\ rec.id # ""
     THEN IF rec.id # w1.last_idle_msg_id
          THEN [w1 EXCEPT !.idle_events = Append(@, IdleEvent(w.path, w.pane, rec.id)),
                          !.last_idle_msg_id = rec.id,
                          !.idled = Append(@, rec.id)]
          ELSE w1
     ELSE IF ~hasTools THEN w1
     ELSE DetectTools(w1, rec.tools, rec.text, t)

ProcessLine(w, rec, t) ==
  CASE rec.type = "fragment" -> w
    [] rec.type = "system" -> HandleCompaction(w)
    [] rec.type = "user" -> HandleToolResult(w, rec, t)
    [] rec.type = "assistant" -> ProcessAssistant(w, rec, t)
    [] OTHER -> w

RECURSIVE ProcessLines(_, _, _)
ProcessLines(w, recs, t) ==
  IF recs = <<>> THEN w
  ELSE ProcessLines(ProcessLine(w, Head(recs), t), Tail(recs), t)

\* self.position = f.tell() after the loop over the lines
PositionAfterRead(f, pos) == FileSize(f)

\* now - tool.detected_at > NOTIFY_DELAY
OldEnoughMutant(tool, t) == t - tool.detected_at >= NOTIFY_DELAY
OldEnough(tool, t) == t - tool.detected_at > NOTIFY_DELAY

\* the loop over tool_queue that picks the tool to announce: <<>> or <<tool>>
RECURSIVE FindReady(_, _, _)
FindReady(w, queue, t) ==
  IF queue = <<>> THEN <<>>
  ELSE LET id == Head(queue)
       IN IF id \in w.tool_results THEN FindReady(w, Tail(queue), t)
          ELSE IF id \in w.notified_tools THEN <<>>
          ELSE IF id \notin PendingIds(w) THEN FindReady(w, Tail(queue), t)
          ELSE IF OldEnough(PendingOf(w, id), t)
               THEN <<PendingOf(w, id)>>
               ELSE FindReady(w, Tail(queue), t)

SelectSeq2(s, S) ==
  LET keep(x) == x \notin S IN SelectSeq(s, keep)

\* TranscriptWatcher.check() up to its return: the field ready and the
\* fields idle_events and compactions hold what the call is about to return
Check(w, f, t) ==
  LET w1 == ProcessLines(w, ReadFrom(f, w.position), t)
      w2 == [w1 EXCEPT !.position = PositionAfterRead(f, w.position),
                       !.tool_queue = SelectSeq2(@, w1.tool_results),
                       !.pending_tools = {p \in @ : p.tool_id \notin w1.tool_results},
                       !.notified_tools = @ \ w1.tool_results]
      ready == FindReady(w2, w2.tool_queue, t)
      ids == {ready[i].tool_id : i \in DOMAIN ready}
  IN [w2 EXCEPT !.notified_tools = @ \cup ids,
                !.pending_tools = {p \in @ : p.tool_id \notin ids},
                !.returned = @ \cup {w.ready[i].tool_id : i \in DOMAIN w.ready},
                !.ready = ready]

\* ------------------------------------------------------------------ state
VARIABLES
  files,               \* path -> [lines, partial]: the transcripts on disk
  now,                 \* time.time()
  alive,               \* the tmux panes that exist
  watchers,            \* TranscriptManager.watchers: path -> watcher
  worder,              \* the key order of that dict
  pane_to_transcript,  \* TranscriptManager.pane_to_transcript
  state,               \* message-state (State._data): message id -> entry
  chat,                \* the messages the chat service holds, by message id
  keys,                \* what tmux send-keys delivered, oldest first
  pc,                  \* where the main loop is: "sleep" or "updates"
  restarts,            \* daemon starts after the first
  operator_pane,       \* config.operator_pane, "" when not set
  registry,            \* Registry tasks: task name -> task data
  markers,             \* the marker file of each directory
  topics,              \* the topics of the group after General, by creation
  warned,              \* _permission_warning_sent
  posts,               \* what the routing layer sent to the group, oldest first
  spawn,               \* the topic creation in progress
  session,             \* the tmux session ca-w: who created it, whose agents run
  resume,              \* the resume_task call in progress
  trees,               \* the directories that are git worktrees
  pidfile,             \* the process PID_FILE names, "" when it is missing
  daemons,             \* where each daemon process is
  disk,                \* the JSON files: what each holds, and its writer
  updates,             \* getUpdates: the chat's updates, the offset, the queue
  outage,              \* the chat service: "none", "on" (sends fail) or "over"
  split,               \* split_message_with_code_blocks: the call in progress
  marker_status,       \* the "status" key of each marker file, "" when absent
  state_file           \* STATE_FILE and the processes that write it

\* tmux has no session ca-w; no resume_task call is in progress
NoSession == [creator |-> "", agents |-> 0]
NoResume == [pane |-> "", name |-> "", at |-> "idle", existed |-> FALSE, launched |-> FALSE]

\* the daemon processes that may be started, none of them running
Daemons == {"a", "b", "c"}
NoDaemons == [p \in Daemons |-> "off"]

\* the persisted JSON files; config and registry are ReloadableJSON
JsonFiles == {"config", "registry", "marker", "state"}
AtomicFiles == {"config", "registry"}
\* every file whole, no temp file, nobody writing
WholeDisk == [f \in JsonFiles |-> [at |-> "idle", content |-> "prev", temp |-> "none"]]

\* TelegramPoller at start: offset 0, no update sent to the bot yet (last:
\* the highest update_id the chat service has given out), the queue between
\* the poll thread and the main loop empty, no update handled
NoUpdates == [queue |-> <<>>, offset |-> 0, last |-> 0, handled |-> <<>>]

\* split_message_with_code_blocks has not been called: text is its argument
\* (a sequence of characters), pos is current_pos, chunks the list it
\* builds, cont is in_continued_block (<<>> for None, else the block in a
\* sequence), closed counts the splits made inside a code block
NoSplit ==
  [text |-> <<>>, pos |-> 0, chunks |-> <<>>, cont |-> <<>>, closed |-> 0,
   done |-> FALSE]

\* the hook processes that may run at a time, none of them running: at is
\* where the process is in save_message_state, msg_id the message it sent,
\* read what read_state returned to it
Hooks == {"h1", "h2"}
IdleHook == [msg_id |-> 0, at |-> "idle", read |-> {}]

\* STATE_FILE does not exist and the daemon's State is empty.  content: the
\* message ids that are keys of the file; data: the keys of State._data in
\* the daemon; next_id: the id the chat service gives to the next message;
\* saved: the ids whose save_message_state call has returned; removed: the
\* ids State.remove was called for
NoStateFile ==
  [content |-> {}, data |-> {}, hooks |-> [h \in Hooks |-> IdleHook],
   next_id |-> 1, saved |-> {}, removed |-> {}]

\* the registry, the marker files, the group's topics and what goes with them
routing == <<operator_pane, registry, markers, topics, warned, posts, spawn>>

vars == <<files, now, alive, watchers, worder, pane_to_transcript,
          state, chat, keys, pc, restarts, routing, session, resume, trees,
          pidfile, daemons, disk, updates, outage, split,
          marker_status, state_file>>

PaneOfPath(path) == CHOOSE p \in Panes : TranscriptOf(p) = path

\* -------------------------------------------------------- TranscriptManager
\* discover_transcripts(): a watcher at end of file for every live pane whose
\* newest transcript is not watched yet.  r = [w, o, p2t]
\* size = os.path.getsize(transcript_path): a new watcher starts at end of file
AttachOffsetMutant(f) == 0
AttachOffset(f) == FileSize(f)

RECURSIVE DiscoverFrom(_, _, _, _)
DiscoverFrom(r, panes, live, fs) ==
  IF panes = <<>> THEN r
  ELSE LET pane == Head(panes)
           path == TranscriptOf(pane)
           r1 == IF pane \notin live THEN r
                 ELSE IF path \in DOMAIN r.w
                      THEN [r EXCEPT !.p2t = (pane :> path) @@ @]
                      ELSE [o |-> Append(r.o, path),
                            w |-> (path :> NewWatcher(path, pane, AttachOffset(fs[path]))) @@ r.w,
                            p2t |-> (pane :> path) @@ r.p2t]
       IN DiscoverFrom(r1, Tail(panes), live, fs)

Discover(r, live, fs) == DiscoverFrom(r, PaneList, live, fs)

\* the tool_result ids a full scan of the file finds
ExistingResults(f) ==
  UNION {WholeLines(f)[i].results :
           i \in {j \in DOMAIN WholeLines(f) : WholeLines(f)[j].type = "user"}}

\* add_from_state(state): entries in key order
RECURSIVE AddFromStateIds(_, _, _, _)
AddFromStateIds(r, ids, st, fs) ==
  IF ids = <<>> THEN r
  ELSE LET e == st[Head(ids)]
           path == e.transcript_path
           r1 == IF path = "" \/ e.pane = "" \/ path \in DOMAIN r.w THEN r
                 ELSE [o |-> Append(r.o, path),
                       w |-> (path :> [NewWatcher(path, e.pane, AttachOffset(fs[path]))
                                         EXCEPT !.tool_results = ExistingResults(fs[path])])
                             @@ r.w,
                       p2t |-> (e.pane :> path) @@ r.p2t]
       IN AddFromStateIds(r1, Tail(ids), st, fs)

RECURSIVE SortedIds(_)
SortedIds(S) ==
  IF S = {} THEN <<>>
  ELSE LET m == CHOOSE x \in S : \A y \in S : x <= y
       IN <<m>> \o SortedIds(S \ {m})

AddFromState(r, st, fs) == AddFromStateIds(r, SortedIds(DOMAIN st), st, fs)

\* cleanup_dead(): drop the watchers of dead panes
CleanupDead(r, live) ==
  LET dead == {p \in DOMAIN r.w : r.w[p].pane \notin live}
      keepPath(p) == p \notin dead
  IN [o |-> SelectSeq(r.o, keepPath),
      w |-> [p \in DOMAIN r.w \ dead |-> r.w[p]],
      p2t |-> [q \in {x \in DOMAIN r.p2t : \A d \in dead : r.w[d].pane # x}
                 |-> r.p2t[q]]]

\* check_all(): every watcher's check(), in dict order
CheckAll(w, fs, t) == [p \in DOMAIN w |-> Check(w[p], fs[p], t)]

\* check() hands its events over: self.compactions = [], self.idle_events = []
Collected(w) == [p \in DOMAIN w |-> [w[p] EXCEPT !.idle_events = <<>>, !.compactions = 0]]

RECURSIVE Flatten(_, _)
Flatten(order, f) ==
  IF order = <<>> THEN <<>> ELSE f[Head(order)] \o Flatten(Tail(order), f)

\* --------------------------------------------------------- notifications
PermissionEntry(tool, t) ==
  [pane |-> tool.pane, type |-> "permission_prompt",
   tool_name |-> tool.tool_name, transcript_path |-> tool.transcript_path,
   handled |-> FALSE, tool_use_id |-> tool.tool_id,
   claude_msg_id |-> "", notified_at |-> t, superseded |-> FALSE]

IdleEntry(ev, t) ==
  [pane |-> ev.pane, type |-> "idle",
   tool_name |-> "", transcript_path |-> ev.transcript_path,
   handled |-> FALSE, tool_use_id |-> "",
   claude_msg_id |-> ev.msg_id, notified_at |-> t, superseded |-> FALSE]

ChatMsg(kind, tool, buttons) ==
  [tool |-> tool, kind |-> kind, buttons |-> buttons, deleted |-> FALSE]

\* One event of a tick: [kind, tool, idle].  send_notification,
\* send_compaction_notification and send_idle_notification on s = [state, chat];
\* ok says whether the chat service took the message.
SendEvent(s, ev, ok, t) ==
  IF ~ok THEN s
  ELSE LET id == Len(s.chat) + 1
       IN CASE ev.kind = "permission" ->
                 [state |-> (id :> PermissionEntry(ev.tool, t)) @@ s.state,
                  chat |-> Append(s.chat, ChatMsg("permission", ev.tool.tool_id, "Allow|Deny"))]
            [] ev.kind = "idle" ->
                 [state |-> IF ev.idle.msg_id # ""
                            THEN (id :> IdleEntry(ev.idle, t)) @@ s.state
                            ELSE s.state,
                  chat |-> Append(s.chat, ChatMsg("idle", "", ""))]
            [] OTHER ->
                 [state |-> s.state,
                  chat |-> Append(s.chat, ChatMsg("compaction", "", ""))]

\* the sends of one pass; the chat service refuses those at the positions lost
RECURSIVE SendAll(_, _, _, _, _)
SendAll(s, evs, i, lost, t) ==
  IF i > Len(evs) THEN s
  ELSE SendAll(SendEvent(s, evs[i], i \notin lost, t), evs, i + 1, lost, t)

NoTool == [pane |-> "", tool_id |-> "", tool_name |-> "",
           assistant_text |-> FALSE, transcript_path |-> "", detected_at |-> 0]
NoIdle == [pane |-> "", transcript_path |-> "", msg_id |-> ""]

RECURSIVE Repeat(_, _)
Repeat(x, n) == IF n = 0 THEN <<>> ELSE <<x>> \o Repeat(x, n - 1)

\* the order in which main() sends what check_all() returned
TickEvents(w, order) ==
  LET tools == Flatten(order, [p \in DOMAIN w |-> w[p].ready])
      comps == Flatten(order, [p \in DOMAIN w |->
                 Repeat([tool |-> NoTool, idle |-> NoIdle, kind |-> "compaction"],
                        w[p].compactions)])
      idles == Flatten(order, [p \in DOMAIN w |-> w[p].idle_events])
  IN [i \in 1..Len(tools) |-> [tool |-> tools[i], idle |-> NoIdle, kind |-> "permission"]]
     \o comps
     \o [i \in 1..Len(idles) |-> [tool |-> NoTool, idle |-> idles[i], kind |-> "idle"]]

\* ------------------------------------------------------- end of the tick
Elapsed(t, notified_at) == IF notified_at # 0 THEN t - notified_at ELSE 999

\* the entries handle_completed_tools acts on
Completed(st, w) ==
  {m \in DOMAIN st :
     /\ ~st[m].handled
     /\ st[m].tool_use_id # ""
     /\ st[m].transcript_path \in DOMAIN w
     /\ st[m].tool_use_id \in w[st[m].transcript_path].tool_results}

\* elapsed < QUICK_RESPONSE_THRESHOLD
IsQuickMutant(elapsed) == elapsed <= QUICK_RESPONSE_THRESHOLD
IsQuick(elapsed) == elapsed < QUICK_RESPONSE_THRESHOLD

SetButtons(ch, m, label) ==
  IF m \in DOMAIN ch /\ ~ch[m].deleted THEN [ch EXCEPT ![m].buttons = label] ELSE ch

SetDeleted(ch, S) ==
  [m \in DOMAIN ch |-> IF m \in S THEN [ch[m] EXCEPT !.deleted = TRUE] ELSE ch[m]]

\* handle_completed_tools on s = [state, chat]; delOk: the messages whose
\* deleteMessage call would succeed
HandleCompletedTools(s, w, t, conf, delOk) ==
  IF ~conf THEN s
  ELSE LET done == Completed(s.state, w)
           quick == {m \in done : IsQuick(Elapsed(t, s.state[m].notified_at))}
       IN [state |-> [m \in DOMAIN s.state \ quick |->
                        IF m \in done THEN [s.state[m] EXCEPT !.handled = TRUE]
                        ELSE s.state[m]],
           chat |-> [m \in DOMAIN s.chat |->
                       IF m \in quick /\ m \in delOk
                       THEN [s.chat[m] EXCEPT !.deleted = TRUE]
                       ELSE IF m \in done \ quick /\ ~s.chat[m].deleted
                       THEN [s.chat[m] EXCEPT !.buttons = "Expired"]
                       ELSE s.chat[m]]]

\* the entries handle_superseded_idle acts on
Superseded(st, w) ==
  {m \in DOMAIN st :
     /\ st[m].type = "idle"
     /\ ~st[m].superseded
     /\ st[m].claude_msg_id # ""
     /\ \E p \in DOMAIN w : st[m].claude_msg_id \in w[p].tool_use_msg_ids}

\* elapsed < IDLE_SUPERSESSION_THRESHOLD
IsQuickSupersessionMutant(elapsed) == elapsed <= IDLE_SUPERSESSION_THRESHOLD
IsQuickSupersession(elapsed) == elapsed < IDLE_SUPERSESSION_THRESHOLD

\* handle_superseded_idle on s = [state, chat]
HandleSupersededIdle(s, w, t, conf, delOk) ==
  IF ~conf THEN s
  ELSE LET sup == Superseded(s.state, w)
           quick == {m \in sup : IsQuickSupersession(Elapsed(t, s.state[m].notified_at))}
       IN [state |-> [m \in DOMAIN s.state \ quick |->
                        IF m \in sup THEN [s.state[m] EXCEPT !.superseded = TRUE]
                        ELSE s.state[m]],
           chat |-> SetDeleted(s.chat, quick \cap delOk)]

\* expire_old_buttons for every pane of pane_to_transcript
ExpireOldButtons(s, w, p2t, conf) ==
  IF ~conf THEN s
  ELSE LET old == {m \in Completed(s.state, w) :
                     /\ s.state[m].pane \in DOMAIN p2t
                     /\ s.state[m].type = "permission_prompt"}
       IN [state |-> [m \in DOMAIN s.state |->
                        IF m \in old THEN [s.state[m] EXCEPT !.handled = TRUE]
                        ELSE s.state[m]],
           chat |-> [m \in DOMAIN s.chat |->
                       IF m \in old /\ ~s.chat[m].deleted
                       THEN [s.chat[m] EXCEPT !.buttons = "Expired"]
                       ELSE s.chat[m]]]

\* cleanup_dead_panes(state)
CleanupDeadPanes(st, live) ==
  [m \in {x \in DOMAIN st : st[x].pane # "" /\ st[x].pane \in live} |-> st[m]]

\* --------------------------------------------------------------- poller
\* tool_already_handled: some line holds both the id and "tool_result".
\* partialHit: whether the written half of an unfinished tool_result line
\* for this id already holds both.
ToolAlreadyHandledMutant(fs, path, id, partialHit) == FALSE
ToolAlreadyHandled(fs, path, id, partialHit) ==
  /\ path # ""
  /\ id # ""
  /\ path \in DOMAIN fs
  /\ \/ \E i \in DOMAIN WholeLines(fs[path]) : id \in WholeLines(fs[path])[i].results
     \/ /\ partialHit
        /\ fs[path].partial
        /\ id \in fs[path].lines[Len(fs[path].lines)].results

\* send_permission_response: the arrow-key sequence of an answer
PermissionKeysMutant(d) ==
  IF d = "y" THEN <<"Enter">>
  ELSE IF d = "a" THEN <<"Down", "Down", "Enter">>
  ELSE <<"Down", "Enter">>
PermissionKeys(d) ==
  IF d = "y" THEN <<"Enter">>
  ELSE IF d = "a" THEN <<"Down", "Enter">>
  ELSE <<"Down", "Down", "Enter">>

\* send_to_pane
TextKeys(text) == <<"C-u", text, "Enter">>

\* get_action_label
GetActionLabel(d) ==
  IF d = "y" THEN "Allowed"
  ELSE IF d = "a" THEN "Always"
  ELSE IF d = "n" THEN "Reply"
  ELSE IF d = "replied" THEN "Replied"
  ELSE "Expired"

MaxOf(S) == IF S = {} THEN 0 ELSE CHOOSE x \in S : \A y \in S : y <= x

\* the other entries a denial expires
BatchDeniedMutant(st, m) == {}
BatchDenied(st, m) ==
  {o \in DOMAIN st :
     /\ o # m
     /\ st[o].pane = st[m].pane
     /\ st[o].type = "permission_prompt"
     /\ ~st[o].handled}

MarkHandled(st, S) ==
  [m \in DOMAIN st |-> IF m \in S THEN [st[m] EXCEPT !.handled = TRUE] ELSE st[m]]

\* which branch of handle_callback a press takes
CallbackOutcome(st, fs, live, m, d, partialHit) ==
  IF d = "_" THEN "noop"
  ELSE IF m \notin DOMAIN st THEN "unknown"
  ELSE IF st[m].handled THEN "handled"
  ELSE IF /\ st[m].type # "permission_prompt"
          /\ m < MaxOf({x \in DOMAIN st : st[x].pane = st[m].pane})
       THEN "stale"
  ELSE IF /\ st[m].type = "permission_prompt"
          /\ ToolAlreadyHandled(fs, st[m].transcript_path, st[m].tool_use_id, partialHit)
       THEN "tui"
  ELSE IF d \in {"y", "n", "a"}
       THEN IF st[m].type = "permission_prompt"
            THEN IF st[m].pane \in live THEN "sent" ELSE "dead"
            ELSE "noprompt"
  ELSE IF st[m].pane \in live THEN "text" ELSE "textfail"

\* handle_callback on s = [state, chat, keys]
HandleCallbackOn(s, fs, live, m, d, partialHit) ==
  LET out == CallbackOutcome(s.state, fs, live, m, d, partialHit)
      pane == s.state[m].pane
  IN CASE out \in {"stale", "tui"} ->
            [state |-> MarkHandled(s.state, {m}),
             chat |-> SetButtons(s.chat, m, "Expired"),
             keys |-> s.keys]
       [] out = "sent" ->
            LET others == IF d = "n" THEN BatchDenied(s.state, m) ELSE {}
            IN [state |-> MarkHandled(s.state, {m} \cup others),
                chat |-> [x \in DOMAIN s.chat |->
                            IF s.chat[x].deleted THEN s.chat[x]
                            ELSE IF x = m
                            THEN [s.chat[x] EXCEPT !.buttons = GetActionLabel(d)]
                            ELSE IF x \in others
                            THEN [s.chat[x] EXCEPT !.buttons = "Denied via batch denial"]
                            ELSE s.chat[x]],
                keys |-> Append(s.keys, [pane |-> pane, keys |-> PermissionKeys(d)])]
       [] out = "dead" ->
            [state |-> MarkHandled(s.state, {m}), chat |-> s.chat, keys |-> s.keys]
       [] out = "text" ->
            [state |-> s.state, chat |-> s.chat,
             keys |-> Append(s.keys, [pane |-> pane, keys |-> TextKeys(d)])]
       [] OTHER -> s

\* get_pending_tool_from_transcript: the tool_use ids of the file without a
\* tool_result.  The scan keeps the first tool_use id of a line only.
PendingInTranscript(fs, path) ==
  IF path = "" \/ path \notin DOMAIN fs THEN {}
  ELSE LET ls == fs[path].lines
           uses == {ls[i].tools[1].id : i \in {j \in DOMAIN ls : ls[j].tools # <<>>}}
           results == UNION {ls[i].results : i \in DOMAIN ls}
       IN uses \ results

\* pending.pop(): any element of the set; "" stands for None
PendingPicksMutant(fs, path) == {""}
PendingPicks(fs, path) ==
  IF PendingInTranscript(fs, path) = {} THEN {""} ELSE PendingInTranscript(fs, path)

\* send_text_to_permission_prompt
PromptTextKeys(text) == <<"C-u", "Down", "Down", "Enter", text, "Enter">>

\* which branch of _handle_reply_to_tracked a reply to message m takes, pick
\* being what get_pending_tool_from_transcript returned
ReplyOutcome(st, live, m, pick) ==
  IF m \notin DOMAIN st THEN "untracked"
  ELSE IF st[m].pane = "" THEN "nopane"
  ELSE IF pick # ""
       THEN IF st[m].tool_use_id = pick
            THEN IF st[m].pane \in live THEN "prompt" ELSE "dead"
            ELSE "blocked"
       ELSE IF st[m].pane \in live THEN "plain" ELSE "dead"

\* _handle_reply_to_tracked on s = [state, chat, keys]
HandleReplyOn(s, live, m, text, pick) ==
  LET out == ReplyOutcome(s.state, live, m, pick)
  IN CASE out = "prompt" ->
            [state |-> MarkHandled(s.state, {m}),
             chat |-> SetButtons(s.chat, m, GetActionLabel("replied")),
             keys |-> Append(s.keys, [pane |-> s.state[m].pane,
                                      keys |-> PromptTextKeys(text)])]
       [] out = "blocked" ->
            [state |-> s.state,
             chat |-> Append(s.chat, ChatMsg("refusal", "", "")),
             keys |-> s.keys]
       [] out = "plain" ->
            [state |-> s.state, chat |-> s.chat,
             keys |-> Append(s.keys, [pane |-> s.state[m].pane,
                                      keys |-> TextKeys(text)])]
       [] OTHER -> s

\* ------------------------------------------- registry, markers and topics
\* the working directories of the panes; both have the same last component
Dirs == {"d1", "d2"}
CwdOf(pane) == IF pane = "p1" THEN "d1" ELSE "d2"
\* _find_pane_by_cwd: the pane tmux lists with this working directory
PaneOfDir(d) == CHOOSE p \in Panes : CwdOf(p) = d
\* the pane of the session ca-op
OperatorSessionPane == "p2"
\* try_auto_register: Path(cwd).name, then name-1, name-2, ...
NameCandidates == <<"w", "w-1", "w-2">>
\* config.general_topic_id
GeneralTopic == 1

TaskData(path, topic, pane, status) ==
  [pane |-> pane, path |-> path, status |-> status, topic_id |-> topic]

\* army.json: missing, pending (pending_topic_name only) or complete
NoMarker == [name |-> "", kind |-> "none", topic_id |-> 0]
PendingMarker(name) == [name |-> name, kind |-> "pending", topic_id |-> 0]
FullMarker(name, topic) == [name |-> name, kind |-> "complete", topic_id |-> topic]
\* army.json exists and json.loads does not accept what it holds
CorruptMarker == [name |-> "", kind |-> "corrupt", topic_id |-> 0]

\* no marker file has a "status" key: complete_pending_marker does not
\* write one
NoStatus == [d \in Dirs |-> ""]

\* write_marker_file replaces the file: a marker that is written anew, or
\* is no longer read as it was, has lost the "status" key
StatusKept(mk0, mk1, ms) ==
  [d \in Dirs |-> IF mk1[d] = mk0[d] THEN ms[d] ELSE ""]

\* read_marker_file, marker["status"] = status, write_marker_file: what
\* pause_task and resume_task do to the marker of dir (nothing when no
\* marker is read)
SetMarkerStatus(mk, ms, dir, status) ==
  IF mk[dir].kind \in {"pending", "complete"}
  THEN [ms EXCEPT ![dir] = status]
  ELSE ms

\* read_marker_file: the marker, NoMarker standing for None; err is the
\* exception that leaves the function, "" for none
ReadMarkerFile(mk, dir) ==
  IF mk[dir].kind = "corrupt"
  THEN [marker |-> NoMarker, err |-> "JSONDecodeError"]
  ELSE [marker |-> mk[dir], err |-> ""]

\* Registry.find_task_by_path, find_task_by_topic: the name of the task, ""
\* when there is none
FindTaskByPath(reg, path) ==
  IF \E n \in DOMAIN reg : reg[n].path = path
  THEN CHOOSE n \in DOMAIN reg : reg[n].path = path ELSE ""

FindTaskByTopic(reg, topic) ==
  IF \E n \in DOMAIN reg : reg[n].topic_id = topic
  THEN CHOOSE n \in DOMAIN reg : reg[n].topic_id = topic ELSE ""

\* Registry.add_task
AddTask(reg, name, data) ==
  [n \in DOMAIN reg \cup {name} |-> IF n = name THEN data ELSE reg[n]]

\* an untracked message to the group: its message_thread_id and what it is
Post(topic, kind) == [kind |-> kind, topic |-> topic]

\* rebuild_registry_from_markers: the complete markers whose name is not in
\* the registry come back, without pane and status
RECURSIVE RebuildFromMutant(_, _, _)
RECURSIVE RebuildFrom(_, _, _)
RebuildFromMutant(reg, mk, dirs) ==
  IF dirs = <<>> THEN reg
  ELSE LET d == Head(dirs)
           add == mk[d].kind # "none" /\ mk[d].name \notin DOMAIN reg
       IN RebuildFromMutant(IF add THEN AddTask(reg, mk[d].name,
                                                TaskData(d, mk[d].topic_id, "", ""))
                            ELSE reg,
                            mk, Tail(dirs))
RebuildFrom(reg, mk, dirs) ==
  IF dirs = <<>> THEN reg
  ELSE LET d == Head(dirs)
           add == mk[d].kind = "complete" /\ mk[d].name \notin DOMAIN reg
       IN RebuildFrom(IF add THEN AddTask(reg, mk[d].name,
                                          TaskData(d, mk[d].topic_id, "", ""))
                      ELSE reg,
                      mk, Tail(dirs))

\* scan_for_marker_files, the loop over the lines of find's output inside the
\* try block: the directories whose marker was read, in that order
RECURSIVE ScanLoop(_, _, _)
ScanLoop(mk, scan, found) ==
  IF scan = <<>> THEN [err |-> "", dirs |-> found]
  ELSE LET r == ReadMarkerFile(mk, Head(scan))
       IN IF r.err # "" THEN [err |-> r.err, dirs |-> found]
          ELSE ScanLoop(mk, Tail(scan),
                        IF r.marker.kind = "none" THEN found
                        ELSE Append(found, Head(scan)))

\* scan_for_marker_files with the one search path it has by default:
\* except (subprocess.TimeoutExpired, Exception): continue
ScanForMarkerFiles(mk, scan) == [ScanLoop(mk, scan, <<>>) EXCEPT !.err = ""]

\* rebuild_registry_from_markers: the registry it leaves, and the exception
\* that reaches its caller
RebuildRegistryFromMarkers(reg, mk, scan) ==
  LET found == ScanForMarkerFiles(mk, scan)
  IN [registry |-> RebuildFrom(reg, mk, found.dirs), err |-> found.err]

\* ------------------------------------------------------ outgoing routing
\* what createForumTopic answers: the topic, "not enough rights" or another
\* error
TopicResults == {"ok", "norights", "error"}

\* the message_thread_id of the i-th topic created in the group
TopicId(i) == GeneralTopic + i

\* write_marker_file_pending (step 1 of _create_task_topic_safely)
WritePending(mk, dir, name) == [mk EXCEPT ![dir] = PendingMarker(name)]
\* create_forum_topic (step 2)
CreateTopic(tp, name) == Append(tp, [name |-> name, status |-> "open"])
\* write_marker_file with the full metadata (step 4)
WriteCompleteMutant(mk, dir, name, topic) == [mk EXCEPT ![dir] = FullMarker(name, topic + 1)]
WriteComplete(mk, dir, name, topic) == [mk EXCEPT ![dir] = FullMarker(name, topic)]

\* _create_task_topic_safely run from step 1 to its end on r = [registry,
\* markers, topics, warned, posts, err, task, dest]; res: the answer to
\* createForumTopic.  err is the exception raised, "" for none.
CreateTaskTopicSafely(r, dir, name, res) ==
  LET r1 == [r EXCEPT !.markers = WritePending(@, dir, name)]
  IN IF res # "ok" THEN [r1 EXCEPT !.err = res]
     ELSE LET tp == CreateTopic(r1.topics, name)
              id == TopicId(Len(tp))
          IN [r1 EXCEPT !.topics = tp,
                        !.posts = Append(@, Post(id, "welcome")),
                        !.markers = WriteComplete(@, dir, name, id),
                        !.dest = id]

\* register_existing_session: task is the name registered, "" for None
RegisterExistingSessionMutant(r, dir, name, conf, res) ==
  IF ~conf \/ name \in DOMAIN r.registry THEN r
  ELSE IF r.markers[dir].kind = "complete"
  THEN [r EXCEPT !.registry = AddTask(@, r.markers[dir].name,
                     TaskData(dir, r.markers[dir].topic_id, "", "active")),
                 !.task = name, !.dest = r.markers[dir].topic_id]
  ELSE IF r.markers[dir].kind = "corrupt"
  THEN [r EXCEPT !.err = ReadMarkerFile(r.markers, dir).err]
  ELSE LET c == CreateTaskTopicSafely(r, dir, name, res)
       IN IF c.err # "" THEN c
          ELSE [c EXCEPT !.registry = AddTask(@, name, TaskData(dir, c.dest, "", "active")),
                         !.task = name]
RegisterExistingSession(r, dir, name, conf, res) ==
  IF ~conf \/ name \in DOMAIN r.registry THEN r
  ELSE IF r.markers[dir].kind = "complete"
  THEN [r EXCEPT !.registry = AddTask(@, r.markers[dir].name,
                     TaskData(dir, r.markers[dir].topic_id, "", "active")),
                 !.task = name, !.dest = r.markers[dir].topic_id]
  ELSE IF r.markers[dir].kind = "pending" THEN r
  ELSE IF r.markers[dir].kind = "corrupt"
  THEN [r EXCEPT !.err = ReadMarkerFile(r.markers, dir).err]
  ELSE LET c == CreateTaskTopicSafely(r, dir, name, res)
       IN IF c.err # "" THEN c
          ELSE [c EXCEPT !.registry = AddTask(@, name, TaskData(dir, c.dest, "", "active")),
                         !.task = name]

\* try_auto_register: the first of the candidate names the registry has not
RECURSIVE UniqueNameFrom(_, _)
UniqueNameFrom(reg, i) ==
  IF i >= Len(NameCandidates) \/ NameCandidates[i] \notin DOMAIN reg
  THEN NameCandidates[i] ELSE UniqueNameFrom(reg, i + 1)

TryAutoRegisterMutant(r, cwd, pane, conf, res) ==
  LET g == RegisterExistingSession([r EXCEPT !.err = "", !.task = "", !.dest = 0],
                                   cwd, UniqueNameFrom(r.registry, 1), conf, res)
  IN IF g.task # ""
     THEN [g EXCEPT !.registry = AddTask(@, g.task, TaskData(cwd, g.dest, pane, "active"))]
     ELSE IF g.err = "norights"
     THEN [g EXCEPT !.warned = TRUE, !.posts = Append(@, Post(0, "warning"))]
     ELSE g
TryAutoRegister(r, cwd, pane, conf, res) ==
  LET g == RegisterExistingSession([r EXCEPT !.err = "", !.task = "", !.dest = 0],
                                   cwd, UniqueNameFrom(r.registry, 1), conf, res)
  IN IF g.task # ""
     THEN [g EXCEPT !.registry = AddTask(@, g.task, TaskData(cwd, g.dest, pane, "active"))]
     ELSE IF g.err = "norights" /\ ~g.warned
     THEN [g EXCEPT !.warned = TRUE, !.posts = Append(@, Post(0, "warning"))]
     ELSE g

\* the dest of a call that sends nothing
NoSend == -1

\* send_to_chat_or_topic for an event from pane: dest is the topic the
\* message is sent to, 0 for a message without message_thread_id; err is the
\* exception that leaves the function, "" for none
SendToChatOrTopicMutant(r, opane, pane, conf, res) ==
  LET cwd == CwdOf(pane)
      name == FindTaskByPath(r.registry, cwd)
      mk == r.markers[cwd]
  IN IF ~conf THEN [r EXCEPT !.dest = 0]
     ELSE IF pane = opane THEN [r EXCEPT !.dest = GeneralTopic]
     ELSE IF name # ""
     THEN [r EXCEPT !.registry = AddTask(@, name, [r.registry[name] EXCEPT !.pane = pane]),
                    !.dest = r.registry[name].topic_id]
     ELSE IF mk.kind = "corrupt"
     THEN [r EXCEPT !.err = ReadMarkerFile(r.markers, cwd).err, !.dest = NoSend]
     ELSE IF mk.kind = "complete"
     THEN [r EXCEPT !.registry = AddTask(@, mk.name,
                        TaskData(cwd, mk.topic_id, pane, "active")),
                    !.dest = mk.topic_id]
     ELSE LET g == TryAutoRegister(r, cwd, pane, conf, res)
          IN IF g.task # "" THEN g ELSE [g EXCEPT !.dest = 0]
SendToChatOrTopic(r, opane, pane, conf, res) ==
  LET cwd == CwdOf(pane)
      name == FindTaskByPath(r.registry, cwd)
      mk == r.markers[cwd]
  IN IF ~conf THEN [r EXCEPT !.dest = 0]
     ELSE IF pane = opane THEN [r EXCEPT !.dest = GeneralTopic]
     ELSE IF name # ""
     THEN [r EXCEPT !.registry = AddTask(@, name, [r.registry[name] EXCEPT !.pane = pane]),
                    !.dest = r.registry[name].topic_id]
     ELSE IF mk.kind = "corrupt"
     THEN [r EXCEPT !.err = ReadMarkerFile(r.markers, cwd).err, !.dest = NoSend]
     ELSE IF mk.kind = "complete"
     THEN [r EXCEPT !.registry = AddTask(@, mk.name,
                        TaskData(cwd, mk.topic_id, pane, "active")),
                    !.dest = mk.topic_id]
     ELSE LET g == TryAutoRegister(r, cwd, pane, conf, res)
          IN IF g.task # "" THEN g ELSE [g EXCEPT !.dest = GeneralTopic]

\* auto_register_discovered_sessions: the watchers in their order
RECURSIVE AutoRegisterDiscovered(_, _, _, _, _, _)
AutoRegisterDiscovered(r, opane, w, order, conf, res) ==
  IF ~conf \/ order = <<>> THEN r
  ELSE LET pane == w[Head(order)].pane
           cwd == CwdOf(pane)
           skip == \/ pane = opane
                   \/ FindTaskByPath(r.registry, cwd) # ""
                   \/ r.markers[cwd].kind # "none"
       IN AutoRegisterDiscovered(
            IF skip THEN r ELSE TryAutoRegister(r, cwd, pane, conf, res[cwd]),
            opane, w, Tail(order), conf, res)

\* the sends of one pass, each routed by send_to_chat_or_topic
RECURSIVE RouteAll(_, _, _, _, _)
RouteAll(r, opane, panes, conf, res) ==
  IF panes = <<>> THEN r
  ELSE RouteAll(SendToChatOrTopic(r, opane, Head(panes), conf, res[CwdOf(Head(panes))]),
                opane, Tail(panes), conf, res)

\* ------------------------------------------------------ inbound messages
\* _format_incoming_message: the text under a header line
FormatIncoming(text) == "[Telegram] " \o text
\* _handle_todo: the prompt built around the item
TodoPrompt == "NEW TODO ITEM x"

\* the texts of the inbound messages
Texts == {"/todo x", "/rebuild-registry", "/x", "hi", ""}
\* the commands spec section 6 lists, each as a user types it
CommandTexts ==
  {"/setup", "/reset", "/status", "/help", "/todo x", "/debug", "/spawn x",
   "/cleanup", "/tmux", "/show", "/recover", "/rebuild-registry"}
\* text.startswith("/")
IsCommandText(text) == text \in {"/todo x", "/rebuild-registry", "/x"} \cup CommandTexts
\* handle_command: the branch whose text_lower.startswith test is the first
\* to accept the text, "" when none does
CommandOf(text) ==
  CASE text = "/todo x" -> "todo"
    [] text = "/debug" -> "debug"
    [] text = "/setup" -> "setup"
    [] text = "/help" -> "help"
    [] text = "/status" -> "status"
    [] text = "/spawn x" -> "spawn"
    [] text = "/cleanup" -> "cleanup"
    [] text = "/tmux" -> "tmux"
    [] text = "/show" -> "show"
    [] text = "/rebuild-registry" -> "rebuild-registry"
    [] OTHER -> ""
\* build_spawn_prompt, build_cleanup_prompt: the prompts for the operator
SpawnPrompt == "SPAWN REQUEST x"
CleanupPrompt == "CLEANUP REQUEST"
ChatKinds == {"private", "group", "foreign"}

\* send_to_operator on s = [state, chat, keys, alive, registry,
\* operator_pane, posts, sent]; startOk: whether tmux new-session succeeds
SendToOperator(s, text, conf, startOk) ==
  IF ~conf THEN [s EXCEPT !.sent = FALSE]
  ELSE LET up == s.operator_pane # "" /\ OperatorSessionPane \in s.alive
           pane == IF up THEN s.operator_pane
                   ELSE IF OperatorSessionPane \in s.alive \/ startOk
                   THEN OperatorSessionPane ELSE ""
       IN IF pane = "" THEN [s EXCEPT !.sent = FALSE]
          ELSE [s EXCEPT !.operator_pane = pane,
                         !.alive = @ \cup {pane},
                         !.keys = Append(@, [pane |-> pane,
                                    keys |-> <<"Escape", "C-u", text, "Enter">>]),
                         !.sent = TRUE]

\* start_operator_session from _handle_setup
StartOperatorSession(s, startOk) ==
  IF OperatorSessionPane \in s.alive \/ startOk
  THEN [s EXCEPT !.operator_pane = OperatorSessionPane,
                 !.alive = @ \cup {OperatorSessionPane}]
  ELSE s

\* send_to_tmux_pane from send_to_worker
SendToPane(s, pane, text) ==
  IF pane \in s.alive
  THEN [s EXCEPT !.keys = Append(@, [pane |-> pane, keys |-> TextKeys(text)]),
                 !.sent = TRUE]
  ELSE [s EXCEPT !.sent = FALSE]

\* resume_task: the marker update, then a new session in the task's
\* directory and the registry update; None when no session is created
ResumeTask(s, name, resumeOk, mk) ==
  LET dir == s.registry[name].path
      s1 == [s EXCEPT !.marker_status = SetMarkerStatus(mk, @, dir, "active")]
  IN IF ~resumeOk THEN s1
     ELSE [s1 EXCEPT !.alive = @ \cup {PaneOfDir(dir)},
                     !.registry = AddTask(@, name,
                         [s.registry[name] EXCEPT !.status = "active",
                                                  !.pane = PaneOfDir(dir)])]

\* send_to_worker
SendToWorker(s, topic, text, resumeOk, mk) ==
  LET name == FindTaskByTopic(s.registry, topic)
  IN IF name = "" THEN [s EXCEPT !.sent = FALSE]
     ELSE LET task == s.registry[name]
          IN IF task.pane # "" /\ task.pane \in s.alive
             THEN SendToPane(s, task.pane, text)
             ELSE IF PaneOfDir(task.path) \in s.alive
             THEN SendToPane([s EXCEPT !.registry = AddTask(@, name,
                                 [task EXCEPT !.pane = PaneOfDir(task.path)])],
                             PaneOfDir(task.path), text)
             ELSE IF task.status = "paused" THEN [s EXCEPT !.sent = FALSE]
             ELSE LET s1 == [s EXCEPT !.posts = Append(@, Post(topic, "recreating"))]
                      s2 == ResumeTask(s1, name, resumeOk, mk)
                  IN IF ~resumeOk
                     THEN [s2 EXCEPT !.posts = Append(@, Post(topic, "failed")),
                                     !.sent = FALSE]
                     ELSE SendToPane([s2 EXCEPT !.posts = Append(@, Post(topic, "recreated"))],
                                     PaneOfDir(task.path), text)

\* handle_command: sent is set when the text was a command it knows.
\* scan: the order in which find lists the marker files
HandleCommand(s, msg, conf, startOk, mk, scan) ==
  CASE CommandOf(msg.text) = "todo" ->
         LET s1 == SendToOperator(s, TodoPrompt, conf, startOk)
         IN [(IF s1.sent THEN s1
              ELSE [s1 EXCEPT !.posts = Append(@, Post(msg.topic, "reply"))])
             EXCEPT !.sent = TRUE]
    [] CommandOf(msg.text) \in {"debug", "help", "status", "tmux", "show"} ->
         [s EXCEPT !.posts = Append(@, Post(msg.topic, "reply")), !.sent = TRUE]
    [] CommandOf(msg.text) = "setup" ->
         IF conf \/ msg.chat = "private"
         THEN [s EXCEPT !.posts = Append(@, Post(msg.topic, "reply")), !.sent = TRUE]
         ELSE LET s1 == StartOperatorSession(s, startOk)
              IN [s1 EXCEPT !.posts = Append(@, Post(msg.topic, "reply")), !.sent = TRUE]
    [] CommandOf(msg.text) = "spawn" ->
         LET s1 == SendToOperator(s, SpawnPrompt, conf, startOk)
         IN [s1 EXCEPT !.posts = Append(@, Post(msg.topic, "reply")), !.sent = TRUE]
    [] CommandOf(msg.text) = "cleanup" ->
         LET s1 == IF FindTaskByTopic(s.registry, msg.topic) = "" THEN s
                   ELSE SendToOperator(s, CleanupPrompt, conf, startOk)
         IN [s1 EXCEPT !.posts = Append(@, Post(msg.topic, "reply")), !.sent = TRUE]
    [] CommandOf(msg.text) = "rebuild-registry" ->
         IF ~conf
         THEN [s EXCEPT !.posts = Append(@, Post(msg.topic, "reply")), !.sent = TRUE]
         ELSE [s EXCEPT !.posts = @ \o <<Post(msg.topic, "reply"), Post(msg.topic, "reply")>>,
                        !.registry = RebuildRegistryFromMarkers(@, mk, scan).registry,
                        !.sent = TRUE]
    [] OTHER -> [s EXCEPT !.sent = FALSE]

\* get_worker_pane_for_topic: "" stands for None
GetWorkerPaneForTopic(reg, topic) ==
  IF FindTaskByTopic(reg, topic) = "" THEN ""
  ELSE reg[FindTaskByTopic(reg, topic)].pane

\* handle_message on s = [state, chat, keys, alive, registry, operator_pane,
\* posts, sent]; msg = [text, chat, topic, reply_to], topic 0 standing for no
\* message_thread_id and reply_to 0 for no reply
HandleMessageOn(s, msg, conf, startOk, resumeOk, pick, mk, scan) ==
  LET c == IF IsCommandText(msg.text)
           THEN HandleCommand(s, msg, conf, startOk, mk, scan)
           ELSE [s EXCEPT !.sent = FALSE]
      tracked == /\ msg.reply_to \in DOMAIN s.state
                 /\ msg.text # ""
                 /\ s.state[msg.reply_to].pane # ""
  IN IF c.sent THEN c
     ELSE IF ~conf THEN s
     ELSE IF msg.chat = "private"
     THEN IF msg.text = "" THEN s
          ELSE SendToOperator(s, FormatIncoming(msg.text), conf, startOk)
     ELSE IF msg.chat # "group" THEN s
     ELSE IF msg.topic \in {0, GeneralTopic}
     THEN IF msg.text = "" THEN s
          ELSE SendToOperator(s, FormatIncoming(msg.text), conf, startOk)
     ELSE IF tracked
     THEN LET r == HandleReplyOn([state |-> s.state, chat |-> s.chat, keys |-> s.keys],
                                 s.alive, msg.reply_to, msg.text, pick)
          IN [s EXCEPT !.state = r.state, !.chat = r.chat, !.keys = r.keys]
     ELSE IF GetWorkerPaneForTopic(s.registry, msg.topic) # ""
     THEN IF msg.text = "" THEN s
          ELSE SendToWorker(s, msg.topic, FormatIncoming(msg.text), resumeOk, mk)
     ELSE s

\* ------------------------------------------------------------ the agents
LinesWritten(fs) == Len(fs["t1"].lines) + Len(fs["t2"].lines)

ToolsIn(f) ==
  UNION {{f.lines[i].tools[j].id : j \in DOMAIN f.lines[i].tools} : i \in DOMAIN f.lines}

ResultsIn(f) == UNION {f.lines[i].results : i \in DOMAIN f.lines}

\* The tool_use batches an agent may write next: tool ids are unique, the
\* normal calls come in the order of NormalCalls, the internal one once.
Batches(used) ==
  LET fresh == SelectSeq(NormalCalls, LAMBDA c : c.id \notin used)
  IN (IF fresh = <<>> THEN {} ELSE {<<fresh[1]>>})
     \cup (IF Len(fresh) < 2 THEN {} ELSE {<<fresh[1], fresh[2]>>})
     \cup (IF SkipCall.id \in used THEN {} ELSE {<<SkipCall>>})

\* The records an agent may write next: the text block of an assistant
\* message,
TextRecords(path) == {AssistantRec(MsgIdOf(path), TRUE, <<>>)}

\* its tool_use blocks,
ToolRecords(fs, path) ==
  {AssistantRec(MsgIdOf(path), FALSE, tools) :
     tools \in Batches(UNION {ToolsIn(fs[p]) : p \in Paths})}

\* or the tool_result of a tool_use of this transcript that has none yet.
ResultRecords(fs, path) ==
  {UserRec({id}) : id \in ToolsIn(fs[path]) \ ResultsIn(fs[path])}

NextRecords(fs, path) ==
  TextRecords(path) \cup ToolRecords(fs, path) \cup ResultRecords(fs, path)

\* -------------------------------------------------------------- actions
NoFiles == [p \in Paths |-> [lines |-> <<>>, partial |-> FALSE]]
NoWatchers == [o |-> <<>>, w |-> <<>>, p2t |-> <<>>]

\* no topic creation is going on
NoSpawn == [name |-> "", topic |-> 0, dir |-> "", step |-> "idle"]

\* The daemon has started in a group that was set up before: the operator's
\* session is p2, the session in d1 is a registered task with its topic.
\* With that, send_to_chat_or_topic sends what the agents of p1 and p2 cause
\* to the task's topic and to General and leaves the registry as it is.
Init ==
  /\ files = NoFiles
  /\ now = 1
  /\ alive = Panes
  /\ watchers = Discover(NoWatchers, Panes, NoFiles).w
  /\ worder = Discover(NoWatchers, Panes, NoFiles).o
  /\ pane_to_transcript = Discover(NoWatchers, Panes, NoFiles).p2t
  /\ state = <<>>
  /\ chat = <<>>
  /\ keys = <<>>
  /\ pc = "sleep"
  /\ restarts = 0
  /\ operator_pane = OperatorSessionPane
  /\ registry = ("w" :> TaskData("d1", 2, "p1", "active"))
  /\ markers = [d \in Dirs |-> IF d = "d1" THEN FullMarker("w", 2) ELSE NoMarker]
  /\ marker_status = NoStatus
  /\ state_file = NoStateFile
  /\ topics = <<[name |-> "w", status |-> "open"]>>
  /\ warned = FALSE
  /\ posts = <<>>
  /\ spawn = NoSpawn
  /\ session = NoSession
  /\ resume = NoResume
  /\ pidfile = ""
  /\ daemons = NoDaemons
  /\ disk = WholeDisk
  /\ updates = NoUpdates
  /\ outage = "none"
  /\ split = NoSplit
  /\ trees = {}

\* The agent in a live pane writes a record, whole or only its first half.
AppendRecord(path, rec, half) ==
  /\ PaneOfPath(path) \in alive
  /\ ~files[path].partial
  /\ LinesWritten(files) < MaxLines
  /\ files' = [files EXCEPT ![path] = [lines |-> Append(@.lines, rec), partial |-> half]]
  /\ UNCHANGED <<state_file, marker_status, split, outage, updates, disk, pidfile, daemons, trees, session, resume, now, alive, watchers, worder, pane_to_transcript,
                 state, chat, keys, pc, restarts, routing>>

\* The agent writes the rest of a half written record.
CompleteRecord(path) ==
  /\ files[path].partial
  /\ files' = [files EXCEPT ![path].partial = FALSE]
  /\ UNCHANGED <<state_file, marker_status, split, outage, updates, disk, pidfile, daemons, trees, session, resume, now, alive, watchers, worder, pane_to_transcript,
                 state, chat, keys, pc, restarts, routing>>

\* What the daemon will still compare the clock with, at the scale d: a
\* detected tool that is not old enough to be announced, or an unhandled
\* (idle: not superseded) entry that is younger than its threshold.
Timing(d) ==
  IF d = NOTIFY_DELAY
  THEN \E p \in DOMAIN watchers : \E x \in watchers[p].pending_tools :
         now - x.detected_at <= NOTIFY_DELAY
  ELSE \E m \in DOMAIN state :
         /\ IF state[m].type = "idle" THEN ~state[m].superseded ELSE ~state[m].handled
         /\ now - state[m].notified_at < QUICK_RESPONSE_THRESHOLD

\* Time passes while the loop sleeps; a pass takes no time.  The daemon reads
\* only differences of clock values and compares them with its thresholds,
\* so time that passes while nothing is being timed is not counted.
Advance(d) ==
  /\ pc = "sleep"
  /\ Timing(d)
  /\ now + d <= MaxTime
  /\ now' = now + d
  /\ UNCHANGED <<state_file, marker_status, split, outage, updates, disk, pidfile, daemons, trees, session, resume, files, alive, watchers, worder, pane_to_transcript,
                 state, chat, keys, pc, restarts, routing>>

PaneDies(p) ==
  /\ p \in alive
  /\ ~files[TranscriptOf(p)].partial
  /\ alive' = alive \ {p}
  /\ UNCHANGED <<state_file, marker_status, split, outage, updates, disk, pidfile, daemons, trees, session, resume, files, now, watchers, worder, pane_to_transcript,
                 state, chat, keys, pc, restarts, routing>>

PaneStarts(p) ==
  /\ p \notin alive
  /\ alive' = alive \cup {p}
  /\ UNCHANGED <<state_file, marker_status, split, outage, updates, disk, pidfile, daemons, trees, session, resume, files, now, watchers, worder, pane_to_transcript,
                 state, chat, keys, pc, restarts, routing>>

\* the registry, the markers and the group as the routing layer finds them
Routes ==
  [registry |-> registry, markers |-> markers, topics |-> topics,
   warned |-> warned, posts |-> posts, err |-> "", dest |-> 0, task |-> ""]

\* the panes of the events of a pass, in the order of TickEvents
EventPanes(w, order) ==
  Flatten(order, [p \in DOMAIN w |-> Repeat(w[p].pane, Len(w[p].ready))])
  \o Flatten(order, [p \in DOMAIN w |-> Repeat(w[p].pane, w[p].compactions)])
  \o Flatten(order, [p \in DOMAIN w |-> Repeat(w[p].pane, Len(w[p].idle_events))])

\* what the routing layer reads from outside in one pass: conf is
\* config.is_configured(), res[d] the answer to createForumTopic for
\* directory d.  conf is read to no effect where every directory is the
\* operator's or has its task registered with its pane, and res[d] only where
\* a topic would be created for d.
RoutingInputs ==
  LET settled(d) == \/ PaneOfDir(d) = operator_pane
                    \/ /\ FindTaskByPath(registry, d) # ""
                       /\ registry[FindTaskByPath(registry, d)].pane = PaneOfDir(d)
      unmanaged(d) == /\ PaneOfDir(d) # operator_pane
                      /\ FindTaskByPath(registry, d) = ""
                      /\ markers[d].kind = "none"
  IN [conf : IF \A d \in Dirs : settled(d) THEN {TRUE} ELSE BOOLEAN,
      res : {f \in [Dirs -> TopicResults] : \A d \in Dirs : ~unmanaged(d) => f[d] = "ok"}]

\* main(): one pass of the loop up to the processing of updates.  discover:
\* whether the 30 s discovery period has run out.  lost: the positions of the
\* sends of this pass that the chat service refuses.
Tick(discover, lost) ==
  /\ pc = "sleep"
  /\ LET r0 == [o |-> worder, w |-> watchers, p2t |-> pane_to_transcript]
         r == IF discover THEN Discover(r0, alive, files) ELSE r0
         w == CheckAll(r.w, files, now)
         evs == TickEvents(w, r.o)
         s == SendAll([state |-> state, chat |-> chat], evs, 1, lost, now)
         panes == EventPanes(w, r.o)
     IN /\ lost \subseteq 1..Len(evs)
        /\ Len(s.chat) <= MaxMsgs
        /\ watchers' = Collected(w)
        /\ worder' = r.o
        /\ pane_to_transcript' = r.p2t
        /\ state' = s.state
        /\ chat' = s.chat
        /\ \E in \in RoutingInputs :
             LET g0 == IF discover
                       THEN AutoRegisterDiscovered(Routes, operator_pane, r.w, r.o,
                                                   in.conf, in.res)
                       ELSE Routes
                 g == RouteAll(g0, operator_pane, panes, in.conf, in.res)
             IN /\ Len(g.topics) <= MaxTopics
                /\ Len(g.posts) <= MaxPosts
                /\ registry' = g.registry
                /\ markers' = g.markers
                /\ marker_status' = StatusKept(markers, g.markers, marker_status)
                /\ topics' = g.topics
                /\ warned' = g.warned
                /\ posts' = g.posts
  /\ pc' = "updates"
  /\ UNCHANGED <<state_file, split, outage, updates, disk, pidfile, daemons, trees, session, resume, files, now, alive, keys, restarts, operator_pane, spawn>>

\* process_updates: one button press, on any message id
HandleCallback(m, d, partialHit) ==
  /\ pc = "updates"
  /\ LET s == HandleCallbackOn([state |-> state, chat |-> chat, keys |-> keys],
                               files, alive, m, d, partialHit)
     IN /\ state' = s.state
        /\ chat' = s.chat
        /\ keys' = s.keys
  /\ UNCHANGED <<state_file, marker_status, split, outage, updates, disk, pidfile, daemons, trees, session, resume, files, now, alive, watchers, worder,
                 pane_to_transcript, pc, restarts, routing>>

\* main(): the rest of the pass.  conf: config.is_configured() as this pass
\* reads it (config.json is reloaded whenever it changes on disk, /setup and
\* /reset write it).  cleanup: whether the 300 s cleanup period has run out.
\* delOk: the messages whose deleteMessage call succeeds.
EndTick(conf, cleanup) ==
  /\ pc = "updates"
  /\ \E delOk \in SUBSET (Completed(state, watchers) \cup Superseded(state, watchers)) :
       LET s1 == HandleCompletedTools([state |-> state, chat |-> chat],
                                      watchers, now, conf, delOk)
           s2 == HandleSupersededIdle(s1, watchers, now, conf, delOk)
           s3 == ExpireOldButtons(s2, watchers, pane_to_transcript, conf)
           r0 == [o |-> worder, w |-> watchers, p2t |-> pane_to_transcript]
           r == IF cleanup THEN CleanupDead(r0, alive) ELSE r0
       IN /\ state' = IF cleanup THEN CleanupDeadPanes(s3.state, alive) ELSE s3.state
          /\ chat' = s3.chat
          /\ watchers' = r.w
          /\ worder' = r.o
          /\ pane_to_transcript' = r.p2t
  /\ pc' = "sleep"
  /\ UNCHANGED <<state_file, marker_status, split, outage, updates, disk, pidfile, daemons, trees, session, resume, files, now, alive, keys, restarts, routing>>

\* The daemon stops anywhere and is started again: main() up to the loop.
\* Message-state comes back from its file, everything else is built anew,
\* and the sessions found are registered.
Restart ==
  /\ restarts < MaxRestarts
  /\ restarts' = restarts + 1
  /\ LET r == Discover(AddFromState(NoWatchers, state, files), alive, files)
     IN /\ watchers' = r.w
        /\ worder' = r.o
        /\ pane_to_transcript' = r.p2t
        /\ \E in \in RoutingInputs :
             LET g == AutoRegisterDiscovered([Routes EXCEPT !.warned = FALSE],
                                             operator_pane, r.w, r.o, in.conf, in.res)
             IN /\ Len(g.topics) <= MaxTopics
                /\ Len(g.posts) <= MaxPosts
                /\ registry' = g.registry
                /\ markers' = g.markers
                /\ marker_status' = StatusKept(markers, g.markers, marker_status)
                /\ topics' = g.topics
                /\ warned' = g.warned
                /\ posts' = g.posts
  /\ pc' = "sleep"
  /\ UNCHANGED <<state_file, split, outage, updates, disk, pidfile, daemons, trees, session, resume, files, now, alive, state, chat, keys, operator_pane, spawn>>

\* One agent writing tool calls and results, in whole and in half records,
\* and the daemon's loop over its transcript.
NextWatcher ==
  \/ \E half \in BOOLEAN :
       \E rec \in ToolRecords(files, "t1") \cup ResultRecords(files, "t1") :
         AppendRecord("t1", rec, half)
  \/ CompleteRecord("t1")
  \/ \E d \in TimeSteps : Advance(d)
  \/ Tick(FALSE, {})
  \/ EndTick(TRUE, FALSE)

SpecWatcher == Init /\ [][NextWatcher]_vars

\* One agent, whose pane may die and come back, and the daemon with its
\* restarts, its discovery and its cleanup.
NextLifecycle ==
  \/ \E rec \in ToolRecords(files, "t1") \cup ResultRecords(files, "t1") :
         AppendRecord("t1", rec, FALSE)
  \/ \E d \in TimeSteps : Advance(d)
  \/ PaneDies("p1")
  \/ PaneStarts("p1")
  \/ \E discover \in BOOLEAN, lost \in {{}, {1}} : Tick(discover, lost)
  \/ \E cleanup \in BOOLEAN : EndTick(TRUE, cleanup)
  \/ Restart

SpecLifecycle == Init /\ [][NextLifecycle]_vars

\* Two agents writing whole records, the daemon's loop and the presses of
\* the buttons.
NextDaemon ==
  \/ \E rec \in NextRecords(files, "t1") : AppendRecord("t1", rec, FALSE)
  \/ \E rec \in TextRecords("t2") : AppendRecord("t2", rec, FALSE)
  \/ \E d \in TimeSteps : Advance(d)
  \/ PaneDies("p1")
  \/ Tick(FALSE, {})
  \/ \E m \in 1..MaxMsgs, d \in CbData : HandleCallback(m, d, FALSE)
  \/ \E conf \in BOOLEAN, cleanup \in BOOLEAN : EndTick(conf, cleanup)

SpecDaemon == Init /\ [][NextDaemon]_vars

\* handle_message: a text message in a task topic of the configured group
\* that replies to the tracked message m
ReplyToTracked(m, text) ==
  /\ pc = "updates"
  /\ m \in DOMAIN state
  /\ Len(keys) < MaxKeys
  /\ \E pick \in PendingPicks(files, state[m].transcript_path) :
       LET s == HandleReplyOn([state |-> state, chat |-> chat, keys |-> keys],
                              alive, m, text, pick)
       IN /\ Len(s.chat) <= MaxMsgs
          /\ state' = s.state
          /\ chat' = s.chat
          /\ keys' = s.keys
  /\ UNCHANGED <<state_file, marker_status, split, outage, updates, disk, pidfile, daemons, trees, session, resume, files, now, alive, watchers, worder,
                 pane_to_transcript, pc, restarts, routing>>

\* find lists the marker files in some order
Scans == {<<"d1", "d2">>, <<"d2", "d1">>}

\* process_updates: one inbound message.  conf: config.is_configured() as
\* the handler reads it; ok: whether tmux new-session succeeds, for the
\* operator's session or for the task's.
HandleMessage(msg, conf, ok) ==
  /\ pc = "updates"
  /\ \E pick \in (IF msg.reply_to \in DOMAIN state
                  THEN PendingPicks(files, state[msg.reply_to].transcript_path)
                  ELSE {""}),
        scan \in (IF msg.text = "/rebuild-registry" THEN Scans ELSE {<<"d1", "d2">>}) :
       LET s == HandleMessageOn(
                  [alive |-> alive, state |-> state, chat |-> chat, keys |-> keys,
                   operator_pane |-> operator_pane, registry |-> registry,
                   posts |-> posts, marker_status |-> marker_status,
                   sent |-> FALSE],
                  msg, conf, ok, ok, pick, markers, scan)
       IN /\ Len(s.keys) <= MaxKeys
          /\ Len(s.chat) <= MaxMsgs
          /\ Len(s.posts) <= MaxPosts
          /\ Len(s.keys) + Len(s.posts) <= MaxPosts   \* both logs together
          /\ state' = s.state
          /\ chat' = s.chat
          /\ keys' = s.keys
          /\ alive' = s.alive
          /\ registry' = s.registry
          /\ operator_pane' = s.operator_pane
          /\ posts' = s.posts
          /\ marker_status' = s.marker_status
  /\ UNCHANGED <<state_file, split, outage, updates, disk, pidfile, daemons, trees, session, resume, files, now, watchers, worder, pane_to_transcript, pc, restarts,
                 markers, topics, warned, spawn>>

\* registry.json is a cache: it is removed or does not parse, and the
\* registry starts empty
RegistryLost ==
  /\ registry # <<>>
  /\ registry' = <<>>
  /\ UNCHANGED <<state_file, marker_status, split, outage, updates, disk, pidfile, daemons, trees, session, resume, files, now, alive, watchers, worder, pane_to_transcript,
                 state, chat, keys, pc, restarts,
                 operator_pane, markers, topics, warned, posts, spawn>>

\* pause_task, run by the operator: the task's session is stopped (killed:
\* whether the pane was a session of that name), the task is marked paused
\* and loses its pane
PauseTask(name, killed) ==
  /\ name \in DOMAIN registry
  /\ registry[name].status # "paused"
  /\ alive' = IF killed THEN alive \ {PaneOfDir(registry[name].path)} ELSE alive
  /\ session' = IF killed THEN NoSession ELSE session
  /\ marker_status' = SetMarkerStatus(markers, marker_status,
                                      registry[name].path, "paused")
  /\ registry' = IF markers[registry[name].path].kind = "corrupt"
                  THEN registry   \* read_marker_file raises
                  ELSE AddTask(registry, name,
                         [registry[name] EXCEPT !.status = "paused", !.pane = ""])
  /\ UNCHANGED <<state_file, split, outage, updates, disk, pidfile, daemons, trees, resume, files, now, watchers, worder, pane_to_transcript,
                 state, chat, keys, pc, restarts,
                 operator_pane, markers, topics, warned, posts, spawn>>

\* the inbound messages: a command in any chat; a text in any chat, in
\* General, in a task's topic or in a topic no task has, replying to any
\* message or to none; a message without text in a task's topic
Messages ==
  [text : {t \in Texts : IsCommandText(t)}, chat : ChatKinds,
   topic : {GeneralTopic + 1}, reply_to : {0}]
  \cup [text : {"hi"}, chat : {"private", "foreign"}, topic : {0}, reply_to : {0}]
  \cup [text : {"hi"}, chat : {"group"},
        topic : 0..MaxTopics + 2, reply_to : 0..MaxMsgs]
  \cup [text : {""}, chat : {"group"}, topic : {GeneralTopic + 1}, reply_to : {0, 1}]

\* One agent writing text, the daemon's loop and the messages that come in,
\* while sessions die, tasks are paused and the registry is lost.
NextInbound ==
  \/ \E rec \in TextRecords("t1") : AppendRecord("t1", rec, FALSE)
  \/ \E p \in Panes : PaneDies(p)
  \/ Tick(FALSE, {})
  \/ \E msg \in Messages, conf \in BOOLEAN, ok \in BOOLEAN :
       HandleMessage(msg, conf, ok)
  \/ EndTick(TRUE, FALSE)
  \/ RegistryLost
  \/ \E name \in DOMAIN registry, killed \in BOOLEAN : PauseTask(name, killed)

SpecInbound == Init /\ [][NextInbound]_vars

\* One agent writing whole records, the daemon's loop and the replies to its
\* messages.
NextReply ==
  \/ \E rec \in NextRecords(files, "t1") : AppendRecord("t1", rec, FALSE)
  \/ \E d \in TimeSteps : Advance(d)
  \/ PaneDies("p1")
  \/ Tick(FALSE, {})
  \/ \E m \in 1..MaxMsgs : ReplyToTracked(m, "hi")
  \/ EndTick(TRUE, FALSE)

SpecReply == Init /\ [][NextReply]_vars

\* ------------------------------------------------- topic creation, by step
\* A daemon that started before anything was registered in its group: no
\* task, no marker, no topic after General; the operator runs or does not.
InitFresh ==
  /\ files = NoFiles
  /\ now = 1
  /\ alive = Panes
  /\ watchers = Discover(NoWatchers, Panes, NoFiles).w
  /\ worder = Discover(NoWatchers, Panes, NoFiles).o
  /\ pane_to_transcript = Discover(NoWatchers, Panes, NoFiles).p2t
  /\ state = <<>>
  /\ chat = <<>>
  /\ keys = <<>>
  /\ pc = "sleep"
  /\ restarts = 0
  /\ operator_pane \in {"", OperatorSessionPane}
  /\ registry = <<>>
  /\ markers = [d \in Dirs |-> NoMarker]
  /\ marker_status = NoStatus
  /\ state_file = NoStateFile
  /\ topics = <<>>
  /\ warned = FALSE
  /\ posts = <<>>
  /\ spawn = NoSpawn
  /\ session = NoSession
  /\ resume = NoResume
  /\ pidfile = ""
  /\ daemons = NoDaemons
  /\ disk = WholeDisk
  /\ updates = NoUpdates
  /\ outage = "none"
  /\ split = NoSplit
  /\ trees = {}

\* spawn_session up to step 1 of _create_task_topic_safely: the checks and
\* the pending marker.  conf: config.is_configured()
SpawnStart(dir, name, conf) ==
  /\ spawn = NoSpawn
  /\ conf
  /\ name \notin DOMAIN registry
  /\ markers' = WritePending(markers, dir, name)
  /\ marker_status' = StatusKept(markers, WritePending(markers, dir, name), marker_status)
  /\ spawn' = [name |-> name, topic |-> 0, dir |-> dir, step |-> "pending"]
  /\ UNCHANGED <<state_file, split, outage, updates, disk, pidfile, daemons, trees, session, resume, files, now, alive, watchers, worder, pane_to_transcript,
                 state, chat, keys, pc, restarts,
                 operator_pane, registry, topics, warned, posts>>

\* step 2: create_forum_topic, which raises when the call fails
SpawnCreateTopic(res) ==
  /\ spawn.step = "pending"
  /\ IF res = "ok"
     THEN /\ Len(topics) < MaxTopics
          /\ topics' = CreateTopic(topics, spawn.name)
          /\ spawn' = [spawn EXCEPT !.step = "topic", !.topic = TopicId(Len(topics) + 1)]
     ELSE /\ topics' = topics
          /\ spawn' = NoSpawn
  /\ UNCHANGED <<state_file, marker_status, split, outage, updates, disk, pidfile, daemons, trees, session, resume, files, now, alive, watchers, worder, pane_to_transcript,
                 state, chat, keys, pc, restarts,
                 operator_pane, registry, markers, warned, posts>>

\* step 3: the welcome message in the new topic
SpawnWelcome ==
  /\ spawn.step = "topic"
  /\ Len(posts) < MaxPosts
  /\ posts' = Append(posts, Post(spawn.topic, "welcome"))
  /\ spawn' = [spawn EXCEPT !.step = "welcome"]
  /\ UNCHANGED <<state_file, marker_status, split, outage, updates, disk, pidfile, daemons, trees, session, resume, files, now, alive, watchers, worder, pane_to_transcript,
                 state, chat, keys, pc, restarts,
                 operator_pane, registry, markers, topics, warned>>

\* step 4: the marker with the full metadata
SpawnWriteMarker ==
  /\ spawn.step = "welcome"
  /\ markers' = WriteComplete(markers, spawn.dir, spawn.name, spawn.topic)
  /\ marker_status' = StatusKept(markers, WriteComplete(markers, spawn.dir, spawn.name, spawn.topic), marker_status)
  /\ spawn' = [spawn EXCEPT !.step = "marker"]
  /\ UNCHANGED <<state_file, split, outage, updates, disk, pidfile, daemons, trees, session, resume, files, now, alive, watchers, worder, pane_to_transcript,
                 state, chat, keys, pc, restarts,
                 operator_pane, registry, topics, warned, posts>>

\* spawn_session after the topic: the pane of the directory or a new
\* session (sessionOk: tmux new-session succeeds), then the registry.  When
\* no session can be made the topic is closed and nothing is registered.
SpawnRegister(sessionOk) ==
  /\ spawn.step = "marker"
  /\ LET pane == PaneOfDir(spawn.dir)
     IN IF pane \in alive \/ sessionOk
        THEN /\ alive' = alive \cup {pane}
             /\ registry' = AddTask(registry, spawn.name,
                                    TaskData(spawn.dir, spawn.topic, pane, "active"))
             /\ topics' = topics
        ELSE /\ alive' = alive
             /\ registry' = registry
             /\ topics' = [topics EXCEPT ![spawn.topic - GeneralTopic].status = "closed"]
  /\ spawn' = NoSpawn
  /\ UNCHANGED <<state_file, marker_status, split, outage, updates, disk, pidfile, daemons, trees, session, resume, files, now, watchers, worder, pane_to_transcript,
                 state, chat, keys, pc, restarts,
                 operator_pane, markers, warned, posts>>

\* the process that creates the topic is killed between two steps
SpawnCrash ==
  /\ spawn # NoSpawn
  /\ spawn' = NoSpawn
  /\ UNCHANGED <<state_file, marker_status, split, outage, updates, disk, pidfile, daemons, trees, session, resume, files, now, alive, watchers, worder, pane_to_transcript,
                 state, chat, keys, pc, restarts,
                 operator_pane, registry, markers, topics, warned, posts>>

\* the names the operator gives to the tasks it spawns
SpawnNames == {"w"}

\* Two agents writing one text each in unregistered directories, the
\* daemon's loop and its restarts, the operator spawning tasks step by step,
\* crashes between the steps, and /rebuild-registry.
NextRouting ==
  \/ \E path \in Paths : \E rec \in TextRecords(path) :
       files[path].lines = <<>> /\ AppendRecord(path, rec, FALSE)
  \/ Tick(FALSE, {})
  \/ EndTick(TRUE, FALSE)
  \/ Restart
  \/ \E dir \in Dirs, name \in SpawnNames, conf \in BOOLEAN : SpawnStart(dir, name, conf)
  \/ \E res \in TopicResults : SpawnCreateTopic(res)
  \/ SpawnWelcome
  \/ SpawnWriteMarker
  \/ \E sessionOk \in BOOLEAN : SpawnRegister(sessionOk)
  \/ SpawnCrash
  \/ HandleMessage([text |-> "/rebuild-registry", chat |-> "group",
                   topic |-> GeneralTopic, reply_to |-> 0], TRUE, TRUE)

SpecRouting == InitFresh /\ [][NextRouting]_vars

\* ------------------------------------------------------ registry rebuild
\* The group of Init after a spawn_session of task "w-1" in d2 that was
\* killed: before step 1 (no marker), between steps 1 and 4 (pending marker,
\* its topic created or not) or after step 4 (complete marker, topic 3, no
\* registry entry).
KilledSpawns ==
  {[marker |-> NoMarker, created |-> FALSE],
   [marker |-> PendingMarker("w-1"), created |-> FALSE],
   [marker |-> PendingMarker("w-1"), created |-> TRUE],
   [marker |-> FullMarker("w-1", TopicId(2)), created |-> TRUE]}

InitRebuild ==
  /\ files = NoFiles
  /\ now = 1
  /\ alive = Panes
  /\ watchers = Discover(NoWatchers, Panes, NoFiles).w
  /\ worder = Discover(NoWatchers, Panes, NoFiles).o
  /\ pane_to_transcript = Discover(NoWatchers, Panes, NoFiles).p2t
  /\ state = <<>>
  /\ chat = <<>>
  /\ keys = <<>>
  /\ pc = "sleep"
  /\ restarts = 0
  /\ operator_pane = OperatorSessionPane
  /\ registry = ("w" :> TaskData("d1", 2, "p1", "active"))
  /\ \E k \in KilledSpawns :
       /\ markers = [d \in Dirs |-> IF d = "d1" THEN FullMarker("w", 2) ELSE k.marker]
       /\ topics = IF k.created
                   THEN CreateTopic(<<[name |-> "w", status |-> "open"]>>, "w-1")
                   ELSE <<[name |-> "w", status |-> "open"]>>
  /\ marker_status = NoStatus
  /\ state_file = NoStateFile
  /\ warned = FALSE
  /\ posts = <<>>
  /\ spawn = NoSpawn
  /\ session = NoSession
  /\ resume = NoResume
  /\ pidfile = ""
  /\ daemons = NoDaemons
  /\ disk = WholeDisk
  /\ updates = NoUpdates
  /\ outage = "none"
  /\ split = NoSplit
  /\ trees = {}

\* the /rebuild-registry command, sent in the group's General topic
RebuildStep ==
  HandleMessage([text |-> "/rebuild-registry", chat |-> "group",
                 topic |-> GeneralTopic, reply_to |-> 0], TRUE, TRUE)

\* One agent writing text and the daemon's loop, while the task is paused,
\* the registry is lost and the registry is rebuilt.
NextRebuild ==
  \/ \E rec \in TextRecords("t1") : AppendRecord("t1", rec, FALSE)
  \/ Tick(FALSE, {})
  \/ EndTick(TRUE, FALSE)
  \/ RegistryLost
  \/ \E name \in DOMAIN registry, killed \in BOOLEAN : PauseTask(name, killed)
  \/ RebuildStep

SpecRebuild == InitRebuild /\ [][NextRebuild]_vars

\* ------------------------------------------------------ resume_task, by step
\* The calls of resume_task to tmux, one step each, with another actor that
\* creates the task's session.  A session is not killed while a resume_task
\* call is between its steps.
InitResume ==
  /\ files = NoFiles
  /\ now = 1
  /\ alive = Panes
  /\ watchers = Discover(NoWatchers, Panes, NoFiles).w
  /\ worder = Discover(NoWatchers, Panes, NoFiles).o
  /\ pane_to_transcript = Discover(NoWatchers, Panes, NoFiles).p2t
  /\ state = <<>>
  /\ chat = <<>>
  /\ keys = <<>>
  /\ pc = "sleep"
  /\ restarts = 0
  /\ operator_pane = OperatorSessionPane
  /\ registry = ("w" :> TaskData("d1", 2, "p1", "active"))
  /\ markers = [d \in Dirs |-> IF d = "d1" THEN FullMarker("w", 2) ELSE NoMarker]
  /\ marker_status = NoStatus
  /\ state_file = NoStateFile
  /\ topics = <<[name |-> "w", status |-> "open"]>>
  /\ warned = FALSE
  /\ posts = <<>>
  /\ spawn = NoSpawn
  /\ session = [creator |-> "other", agents |-> 1]
  /\ resume = NoResume
  /\ pidfile = ""
  /\ daemons = NoDaemons
  /\ disk = WholeDisk
  /\ updates = NoUpdates
  /\ outage = "none"
  /\ split = NoSplit
  /\ trees = {}

\* the session ends: its shell exits or tmux kill-session is run
SessionEnds ==
  /\ resume.at = "idle"
  /\ session.creator # ""
  /\ session' = NoSession
  /\ alive' = alive \ {PaneOfDir(registry["w"].path)}
  /\ UNCHANGED <<state_file, marker_status, split, outage, updates, disk, pidfile, daemons, trees, files, now, watchers, worder, pane_to_transcript,
                 state, chat, keys, pc, restarts, routing, resume>>

\* another actor runs tmux new-session for ca-w and starts its agent there
OtherCreatesSession ==
  /\ session.creator = ""
  /\ session' = [creator |-> "other", agents |-> 1]
  /\ alive' = alive \cup {PaneOfDir(registry["w"].path)}
  /\ UNCHANGED <<state_file, marker_status, split, outage, updates, disk, pidfile, daemons, trees, files, now, watchers, worder, pane_to_transcript,
                 state, chat, keys, pc, restarts, routing, resume>>

\* resume_task up to the marker update
ResumeBegin(name) ==
  /\ resume.at = "idle"
  /\ name \in DOMAIN registry
  /\ resume' = [NoResume EXCEPT !.name = name, !.at = "marker"]
  /\ marker_status' = SetMarkerStatus(markers, marker_status,
                                      registry[name].path, "active")
  /\ UNCHANGED <<state_file, split, outage, updates, disk, pidfile, daemons, trees, files, now, alive, watchers, worder, pane_to_transcript,
                 state, chat, keys, pc, restarts, routing, session>>

\* _create_tmux_session: tmux new-session refuses a name that exists; ok:
\* whether it succeeds otherwise
ResumeNewSession(ok) ==
  /\ resume.at = "marker"
  /\ IF session.creator = "" /\ ok
     THEN /\ session' = [creator |-> "self", agents |-> 0]
          /\ alive' = alive \cup {PaneOfDir(registry[resume.name].path)}
          /\ resume' = [resume EXCEPT !.at = "created"]
     ELSE /\ resume' = [resume EXCEPT !.at = "refused"]
          /\ UNCHANGED <<state_file, marker_status, split, session, alive>>
  /\ UNCHANGED <<state_file, marker_status, split, outage, updates, disk, pidfile, daemons, trees, files, now, watchers, worder, pane_to_transcript,
                 state, chat, keys, pc, restarts, routing>>

\* _create_tmux_session: _get_pane_id after the sleep
ResumeGetPane ==
  /\ resume.at = "created"
  /\ resume' = IF session.creator # ""
               THEN [resume EXCEPT !.pane = PaneOfDir(registry[resume.name].path),
                                   !.at = "start"]
               ELSE [resume EXCEPT !.at = "refused"]
  /\ UNCHANGED <<state_file, marker_status, split, outage, updates, disk, pidfile, daemons, trees, files, now, alive, watchers, worder, pane_to_transcript,
                 state, chat, keys, pc, restarts, routing, session>>

\* no pane from _create_tmux_session: _session_exists, then _get_pane_id
ResumeHasSessionMutant ==
  /\ resume.at = "refused"
  /\ resume' = IF session.creator # ""
               THEN [resume EXCEPT !.pane = PaneOfDir(registry[resume.name].path),
                                   !.at = "start"]
               ELSE NoResume
  /\ UNCHANGED <<state_file, marker_status, split, outage, updates, disk, pidfile, daemons, trees, files, now, alive, watchers, worder, pane_to_transcript,
                 state, chat, keys, pc, restarts, routing, session>>
ResumeHasSession ==
  /\ resume.at = "refused"
  /\ resume' = IF session.creator # ""
               THEN [resume EXCEPT !.pane = PaneOfDir(registry[resume.name].path),
                                   !.at = "start", !.existed = TRUE]
               ELSE NoResume
  /\ UNCHANGED <<state_file, marker_status, split, outage, updates, disk, pidfile, daemons, trees, files, now, alive, watchers, worder, pane_to_transcript,
                 state, chat, keys, pc, restarts, routing, session>>

\* _start_claude unless the session already existed
ResumeStart ==
  /\ resume.at = "start"
  /\ resume' = [resume EXCEPT !.at = "registry", !.launched = ~resume.existed]
  /\ session' = IF ~resume.existed /\ session.creator # ""
                THEN [session EXCEPT !.agents = @ + 1]
                ELSE session
  /\ UNCHANGED <<state_file, marker_status, split, outage, updates, disk, pidfile, daemons, trees, files, now, alive, watchers, worder, pane_to_transcript,
                 state, chat, keys, pc, restarts, routing>>

\* the registry update and the return
ResumeRegister ==
  /\ resume.at = "registry"
  /\ registry' = AddTask(registry, resume.name,
                         [registry[resume.name] EXCEPT !.status = "active",
                                                       !.pane = resume.pane])
  /\ resume' = NoResume
  /\ UNCHANGED <<state_file, marker_status, split, outage, updates, disk, pidfile, daemons, trees, files, now, alive, watchers, worder, pane_to_transcript,
                 state, chat, keys, pc, restarts,
                 operator_pane, markers, topics, warned, posts, spawn, session>>

\* resume_task of the task, the other actor and the end of sessions, with
\* the task paused between the calls, one agent writing text and the
\* daemon's loop.
NextResume ==
  \/ \E rec \in TextRecords("t1") : AppendRecord("t1", rec, FALSE)
  \/ Tick(FALSE, {})
  \/ EndTick(TRUE, FALSE)
  \/ SessionEnds
  \/ OtherCreatesSession
  \/ resume.at = "idle" /\ PauseTask("w", session.creator # "")
  \/ ResumeBegin("w")
  \/ \E ok \in BOOLEAN : ResumeNewSession(ok)
  \/ ResumeGetPane
  \/ ResumeHasSession
  \/ ResumeStart
  \/ ResumeRegister

SpecResume == InitResume /\ [][NextResume]_vars

\* ------------------------------------------------------ worktree tasks
\* where spawn_worktree_task can go wrong: git worktree add, the setup hook
\* (it fails, or runs into its deadline), createForumTopic, the welcome
\* message, the write of the complete marker, tmux new-session
WorktreeFailures ==
  {"none", "worktree", "hook", "hook_timeout", "topic", "welcome", "marker", "pane"}

\* delete_worktree: git worktree remove --force; the marker file goes with
\* the directory
DeleteWorktree(s, dir) ==
  [s EXCEPT !.trees = @ \ {dir}, !.markers = [@ EXCEPT ![dir] = NoMarker]]

\* close_forum_topic
CloseTopic(tp, topic) == [tp EXCEPT ![topic - GeneralTopic].status = "closed"]

\* spawn_worktree_task on s = [alive, registry, markers, topics, posts,
\* session, trees, done]; dir: the path trees/<name> of the repository;
\* fail: the step that goes wrong.  done: the task data was returned.
SpawnWorktreeTaskOn(s, dir, name, conf, fail) ==
  IF ~conf \/ name \in DOMAIN s.registry THEN s
  ELSE IF dir \notin s.trees /\ fail = "worktree" THEN s
  ELSE LET \* create_worktree: an existing path is returned as it is
           s1 == [s EXCEPT !.trees = @ \cup {dir}]
           \* step 1 and step 2 of _create_task_topic_safely
           s2 == [s1 EXCEPT !.markers = WritePending(@, dir, name)]
           topic == TopicId(Len(s.topics) + 1)
           s3 == [s2 EXCEPT !.topics = CreateTopic(@, name)]
           \* step 3: the result of send_to_topic is not looked at
           s4 == IF fail = "welcome" THEN s3
                 ELSE [s3 EXCEPT !.posts = Append(@, Post(topic, "welcome"))]
           s5 == [s4 EXCEPT !.markers = WriteComplete(@, dir, name, topic)]
           pane == PaneOfDir(dir)
       IN IF dir \notin s.trees /\ fail = "hook_timeout" THEN s1
          ELSE IF fail = "topic" THEN DeleteWorktree(s2, dir)
          ELSE IF fail = "marker" THEN s4
          ELSE IF fail = "pane"
          THEN DeleteWorktree([s5 EXCEPT !.topics = CloseTopic(@, topic)], dir)
          ELSE [s5 EXCEPT !.registry = AddTask(@, name,
                                         TaskData(dir, topic, pane, "active")),
                          !.alive = @ \cup {pane},
                          !.session = [creator |-> "other", agents |-> 1],
                          !.done = TRUE]

\* the variables spawn_worktree_task works on
Worktrees ==
  [alive |-> alive, registry |-> registry, markers |-> markers, topics |-> topics,
   posts |-> posts, session |-> session, trees |-> trees, done |-> FALSE]

\* spawn_worktree_task, run by the operator
SpawnWorktreeTask(dir, name, conf, fail) ==
  LET s == SpawnWorktreeTaskOn(Worktrees, dir, name, conf, fail)
  IN /\ spawn = NoSpawn
     /\ Len(s.topics) <= MaxTopics
     /\ Len(s.posts) <= MaxPosts
     /\ alive' = s.alive
     /\ registry' = s.registry
     /\ markers' = s.markers
     /\ marker_status' = StatusKept(markers, s.markers, marker_status)
     /\ topics' = s.topics
     /\ posts' = s.posts
     /\ session' = s.session
     /\ trees' = s.trees
     /\ UNCHANGED <<state_file, split, outage, updates, disk, pidfile, daemons, files, now, watchers, worder, pane_to_transcript,
                    state, chat, keys, pc, restarts,
                    operator_pane, warned, spawn, resume>>

\* A configured group with no task.  d1 is the path trees/w of the
\* repository: it does not exist, or it is a worktree from earlier with a
\* session in it.
InitWorktree ==
  /\ files = NoFiles
  /\ now = 1
  /\ trees \in {{}, {"d1"}}
  /\ alive = IF "d1" \in trees THEN Panes ELSE {OperatorSessionPane}
  /\ watchers = Discover(NoWatchers, alive, NoFiles).w
  /\ worder = Discover(NoWatchers, alive, NoFiles).o
  /\ pane_to_transcript = Discover(NoWatchers, alive, NoFiles).p2t
  /\ state = <<>>
  /\ chat = <<>>
  /\ keys = <<>>
  /\ pc = "sleep"
  /\ restarts = 0
  /\ operator_pane = OperatorSessionPane
  /\ registry = <<>>
  /\ markers = [d \in Dirs |-> NoMarker]
  /\ marker_status = NoStatus
  /\ state_file = NoStateFile
  /\ topics = <<>>
  /\ warned = FALSE
  /\ posts = <<>>
  /\ spawn = NoSpawn
  /\ session = NoSession
  /\ resume = NoResume
  /\ pidfile = ""
  /\ daemons = NoDaemons
  /\ disk = WholeDisk
  /\ updates = NoUpdates
  /\ outage = "none"
  /\ split = NoSplit

\* The operator spawning the worktree task, the agents writing text and the
\* daemon's loop.
NextWorktree ==
  \/ \E path \in Paths : \E rec \in TextRecords(path) :
       files[path].lines = <<>> /\ AppendRecord(path, rec, FALSE)
  \/ Tick(TRUE, {})
  \/ EndTick(TRUE, FALSE)
  \/ \E conf \in BOOLEAN, fail \in WorktreeFailures :
       SpawnWorktreeTask("d1", "w", conf, fail)

SpecWorktree == InitWorktree /\ [][NextWorktree]_vars

\* ------------------------------------------------------ check_singleton
\* check_singleton up to the write: the PID file is read and the process it
\* names is probed with signal 0.  A process that is named and exists makes
\* the start end with DaemonAlreadyRunning.
SingletonCheck(p) ==
  /\ daemons[p] = "off"
  /\ daemons' = [daemons EXCEPT ![p] = IF pidfile # "" /\ daemons[pidfile] # "off"
                                       THEN "off" ELSE "checked"]
  /\ UNCHANGED <<state_file, marker_status, split, outage, updates, disk, files, now, alive, watchers, worder, pane_to_transcript,
                 state, chat, keys, pc, restarts, routing, session, resume, trees,
                 pidfile>>

\* check_singleton: PID_FILE.write_text and the atexit registration
SingletonWrite(p) ==
  /\ daemons[p] = "checked"
  /\ pidfile' = p
  /\ daemons' = [daemons EXCEPT ![p] = "running"]
  /\ UNCHANGED <<state_file, marker_status, split, outage, updates, disk, files, now, alive, watchers, worder, pane_to_transcript,
                 state, chat, keys, pc, restarts, routing, session, resume, trees>>

\* the daemon ends.  clean: by SIGTERM, KeyboardInterrupt or an exception,
\* and the atexit handler unlinks PID_FILE; otherwise it is killed and the
\* file stays
DaemonEnds(p, clean) ==
  /\ daemons[p] = "running"
  /\ daemons' = [daemons EXCEPT ![p] = "off"]
  /\ pidfile' = IF clean THEN "" ELSE pidfile
  /\ UNCHANGED <<state_file, marker_status, split, outage, updates, disk, files, now, alive, watchers, worder, pane_to_transcript,
                 state, chat, keys, pc, restarts, routing, session, resume, trees>>

\* Daemon processes being started and ended, by whoever starts them.
NextSingleton ==
  \/ \E p \in Daemons : SingletonCheck(p)
  \/ \E p \in Daemons : SingletonWrite(p)
  \/ \E p \in Daemons, clean \in BOOLEAN : DaemonEnds(p, clean)

SpecSingleton == Init /\ [][NextSingleton]_vars

\* ------------------------------------------------------ JSON files on disk
\* A file holds its previous document ("prev"), the document being written
\* ("next"), nothing ("empty") or the beginning of a document ("partial").
\* A write starts: _write_json makes an empty temp file with mkstemp;
\* Path.write_text opens the file itself for writing, which empties it.
WriteBegin(f) ==
  /\ disk[f].at = "idle"
  /\ disk' = [disk EXCEPT ![f] =
                IF f \in AtomicFiles
                THEN [at |-> "writing",
                      content |-> IF @.content = "next" THEN "prev" ELSE @.content, temp |-> "empty"]
                ELSE [at |-> "writing", content |-> "empty", temp |-> @.temp]]
  /\ UNCHANGED <<state_file, marker_status, split, outage, updates, files, now, alive, watchers, worder, pane_to_transcript,
                 state, chat, keys, pc, restarts, routing, session, resume, trees,
                 pidfile, daemons>>

\* the document reaches the open file, all of it or only its beginning
WriteData(f, whole) ==
  /\ disk[f].at = "writing"
  /\ whole \/ (IF f \in AtomicFiles THEN disk[f].temp ELSE disk[f].content) = "empty"
  /\ disk' = [disk EXCEPT ![f] =
                IF f \in AtomicFiles
                THEN [@ EXCEPT !.temp = IF whole THEN "next" ELSE "partial",
                               !.at = IF whole THEN "rename" ELSE "writing"]
                ELSE [@ EXCEPT !.content = IF whole THEN "next" ELSE "partial",
                               !.at = IF whole THEN "idle" ELSE "writing"]]
  /\ UNCHANGED <<state_file, marker_status, split, outage, updates, files, now, alive, watchers, worder, pane_to_transcript,
                 state, chat, keys, pc, restarts, routing, session, resume, trees,
                 pidfile, daemons>>

\* _write_json: os.rename of the temp file onto the file
WriteRename(f) ==
  /\ disk[f].at = "rename"
  /\ disk' = [disk EXCEPT ![f] = [at |-> "idle", content |-> @.temp, temp |-> "none"]]
  /\ UNCHANGED <<state_file, marker_status, split, outage, updates, files, now, alive, watchers, worder, pane_to_transcript,
                 state, chat, keys, pc, restarts, routing, session, resume, trees,
                 pidfile, daemons>>

\* the writing process is killed: what it wrote so far stays
WriteCrash(f) ==
  /\ disk[f].at # "idle"
  /\ disk' = [disk EXCEPT ![f].at = "idle"]
  /\ UNCHANGED <<state_file, marker_status, split, outage, updates, files, now, alive, watchers, worder, pane_to_transcript,
                 state, chat, keys, pc, restarts, routing, session, resume, trees,
                 pidfile, daemons>>

\* The files being written, each by its own writer, and the writers killed.
NextDisk ==
  \/ \E f \in JsonFiles : WriteBegin(f)
  \/ \E f \in JsonFiles, whole \in BOOLEAN : WriteData(f, whole)
  \/ \E f \in AtomicFiles : WriteRename(f)
  \/ \E f \in JsonFiles : WriteCrash(f)

SpecDisk == Init /\ [][NextDisk]_vars

\* ------------------------------------------------------ inbound updates
\* the update ids from a to b, in order
RECURSIVE IdsFrom(_, _)
IdsFrom(a, b) == IF a > b THEN <<>> ELSE <<a>> \o IdsFrom(a + 1, b)

\* somebody writes to the bot or presses a button: the chat service has one
\* more update
UpdateArrives ==
  /\ updates.last < MaxUpdates
  /\ updates' = [updates EXCEPT !.last = @ + 1]
  /\ UNCHANGED <<state_file, marker_status, split, outage, files, now, alive, watchers, worder, pane_to_transcript,
                 state, chat, keys, pc, restarts, routing, session, resume, trees,
                 pidfile, daemons, disk>>

\* telegram_poll_thread: one poll().  getUpdates answers with the updates
\* from offset on (ok), or the request fails and poll returns [].  The
\* offset moves past what was returned; a batch that is not empty is queued.
PollUpdates(ok) ==
  /\ LET batch == IF ok THEN IdsFrom(IF updates.offset = 0 THEN 1 ELSE updates.offset,
                                    updates.last)
                  ELSE <<>>
     IN updates' = IF batch = <<>> THEN updates
                   ELSE [updates EXCEPT !.offset = updates.last + 1,
                                        !.queue = Append(@, batch)]
  /\ UNCHANGED <<state_file, marker_status, split, outage, files, now, alive, watchers, worder, pane_to_transcript,
                 state, chat, keys, pc, restarts, routing, session, resume, trees,
                 pidfile, daemons, disk>>

\* main: one batch is taken from the queue and given to process_updates.
\* raised: 0, or the position in the batch of the update whose handler
\* raises; the exception ends process_updates and is caught by the loop.
ProcessUpdates(raised) ==
  /\ updates.queue # <<>>
  /\ raised \in 0..Len(Head(updates.queue))
  /\ updates' = [updates EXCEPT
                   !.queue = Tail(@),
                   !.handled = @ \o (IF raised = 0 THEN Head(updates.queue)
                                     ELSE SubSeq(Head(updates.queue), 1, raised))]
  /\ UNCHANGED <<state_file, marker_status, split, outage, files, now, alive, watchers, worder, pane_to_transcript,
                 state, chat, keys, pc, restarts, routing, session, resume, trees,
                 pidfile, daemons, disk>>

\* The chat service, the poll thread and the main loop's queue handling.
NextUpdates ==
  \/ UpdateArrives
  \/ \E ok \in BOOLEAN : PollUpdates(ok)
  \/ \E raised \in 0..MaxUpdates : ProcessUpdates(raised)

SpecUpdates == Init /\ [][NextUpdates]_vars

\* ------------------------------------------------------ a chat outage
\* the chat service starts to refuse every send, once
OutageBegins ==
  /\ outage = "none"
  /\ outage' = "on"
  /\ UNCHANGED <<state_file, marker_status, split, files, now, alive, watchers, worder, pane_to_transcript,
                 state, chat, keys, pc, restarts, routing, session, resume, trees,
                 pidfile, daemons, disk, updates>>

\* and recovers for good
OutageEnds ==
  /\ outage = "on"
  /\ outage' = "over"
  /\ UNCHANGED <<state_file, marker_status, split, files, now, alive, watchers, worder, pane_to_transcript,
                 state, chat, keys, pc, restarts, routing, session, resume, trees,
                 pidfile, daemons, disk, updates>>

\* the sends of the pass that starts now which the chat service refuses:
\* all of them during the outage, none otherwise
LostNow ==
  IF outage = "on"
  THEN 1..Len(TickEvents(CheckAll(watchers, files, now), worder))
  ELSE {}

\* One agent writing tool calls and results, the clock, the daemon's loop
\* and one outage of the chat service.
NextRetry ==
  \/ \E rec \in ToolRecords(files, "t1") \cup ResultRecords(files, "t1") :
       AppendRecord("t1", rec, FALSE)
  \/ \E d \in TimeSteps : Advance(d)
  \/ Tick(FALSE, LostNow)
  \/ EndTick(TRUE, FALSE)
  \/ OutageBegins
  \/ OutageEnds

\* a pass of main()'s loop starts.  Of the steps of NextRetry only
\* Tick(FALSE, LostNow) takes pc from "sleep" to "updates", and it can be
\* taken whenever pc is "sleep".
PassStarts == pc = "sleep" /\ pc' = "updates"

\* main() loops for ever with time.sleep(0.1): a pass starts whenever the
\* loop sleeps and is finished once started.  Time passes, whatever the loop
\* does.  The outage ends.  Nothing is assumed of the agent.
SpecRetry ==
  /\ Init
  /\ [][NextRetry]_vars
  /\ WF_pc(PassStarts)
  /\ WF_vars(EndTick(TRUE, FALSE))
  /\ SF_vars(\E d \in TimeSteps : Advance(d))
  /\ WF_vars(OutageEnds)

\* ------------------------------------------------------ idle events
\* the ids of the assistant messages one agent writes
MsgIds == {"m1", "m2"}

\* The records of the messages in MsgIds an agent may write next: a text
\* block or a batch of tool_use blocks, of either message
IdleRecords(fs, path) ==
  {AssistantRec(id, TRUE, <<>>) : id \in MsgIds}
  \cup {AssistantRec(id, FALSE, tools) :
          id \in MsgIds, tools \in Batches(UNION {ToolsIn(fs[p]) : p \in Paths})}

\* One agent writing text blocks and tool calls of two messages in any
\* order, and the daemon's loop over its transcript.
NextIdle ==
  \/ \E rec \in IdleRecords(files, "t1") \cup ResultRecords(files, "t1") :
       AppendRecord("t1", rec, FALSE)
  \/ \E d \in TimeSteps : Advance(d)
  \/ Tick(FALSE, {})
  \/ EndTick(TRUE, FALSE)

SpecIdle == Init /\ [][NextIdle]_vars

\* ------------------------------------------------------ a corrupt marker
\* army.json of a managed directory no longer parses (a write of it was cut
\* short, or the file was damaged on disk)
MarkerCorrupted(d) ==
  /\ markers[d].kind \in {"pending", "complete"}
  /\ markers' = [markers EXCEPT ![d] = CorruptMarker]
  /\ marker_status' = StatusKept(markers, [markers EXCEPT ![d] = CorruptMarker], marker_status)
  /\ UNCHANGED <<state_file, split, files, now, alive, watchers, worder, pane_to_transcript,
                 state, chat, keys, pc, restarts, operator_pane, registry,
                 topics, warned, posts, spawn, session, resume, trees,
                 pidfile, daemons, disk, updates, outage>>

\* send_to_chat_or_topic for one event of pane, as the send loops of a pass
\* call it
RouteEvent(pane, conf, res) ==
  /\ pc = "sleep"
  /\ LET g == SendToChatOrTopic(Routes, operator_pane, pane, conf, res)
     IN /\ Len(g.topics) <= MaxTopics
        /\ Len(g.posts) <= MaxPosts
        /\ registry' = g.registry
        /\ markers' = g.markers
        /\ marker_status' = StatusKept(markers, g.markers, marker_status)
        /\ topics' = g.topics
        /\ warned' = g.warned
        /\ posts' = g.posts
  /\ UNCHANGED <<state_file, split, files, now, alive, watchers, worder, pane_to_transcript,
                 state, chat, keys, pc, restarts, operator_pane, spawn,
                 session, resume, trees, pidfile, daemons, disk, updates,
                 outage>>

\* The daemon's loop with no agent writing, notifications routed one by one
\* and /rebuild-registry, while the registry is lost and markers get
\* corrupted.
NextCorrupt ==
  \/ Tick(FALSE, {})
  \/ EndTick(TRUE, FALSE)
  \/ RegistryLost
  \/ RebuildStep
  \/ \E d \in Dirs : MarkerCorrupted(d)
  \/ \E pane \in Panes, conf \in BOOLEAN, res \in TopicResults :
       RouteEvent(pane, conf, res)

SpecCorrupt == InitRebuild /\ [][NextCorrupt]_vars

\* ------------------------------------------------------ message splitting
\* Texts are sequences of characters; positions count from 0 as in the code.
\* The two limits keep their order and are scaled down: SAFE_LIMIT is 4000
\* and max_length 4096 in the code.
SAFE_LIMIT == 4
MAX_LENGTH == 5
NL == "\n"
\* the backtick, written # here
Backtick == "#"
Fence == <<Backtick, Backtick, Backtick>>
\* the characters of the texts: a letter, a newline, a backtick
Chars == {"a", NL, Backtick}
Whitespace == {" ", NL, "\t"}

\* text[i] and text[a:b]
At(text, i) == text[i + 1]
Slice(text, a, b) == SubSeq(text, a + 1, b)

MinOf(S) == CHOOSE x \in S : \A y \in S : x <= y

\* text.find(pat, pos)
Find(text, pat, pos) ==
  LET hits == {i \in pos..(Len(text) - Len(pat)) : Slice(text, i, i + Len(pat)) = pat}
  IN IF hits = {} THEN -1 ELSE MinOf(hits)

\* str.strip()
RECURSIVE StripLeft(_)
StripLeft(s) ==
  IF s # <<>> /\ Head(s) \in Whitespace THEN StripLeft(Tail(s)) ELSE s
RECURSIVE StripRight(_)
StripRight(s) ==
  IF s # <<>> /\ s[Len(s)] \in Whitespace
  THEN StripRight(SubSeq(s, 1, Len(s) - 1)) ELSE s
Strip(s) == StripRight(StripLeft(s))

\* _parse_code_blocks, the loop from pos on
RECURSIVE ParseCodeBlocksFrom(_, _)
ParseCodeBlocksFrom(text, pos) ==
  LET start == Find(text, Fence, pos)
      line_end == Find(text, <<NL>>, start)
      language == Strip(Slice(text, start + 3, line_end))
      end == Find(text, <<NL>> \o Fence, line_end)
  IN IF start = -1 THEN <<>>
     ELSE IF line_end = -1
     THEN <<[closed |-> FALSE, start |-> start, language |-> <<>>, end |-> Len(text)]>>
     ELSE IF end = -1
     THEN <<[closed |-> FALSE, start |-> start, language |-> language, end |-> Len(text)]>>
     ELSE <<[closed |-> TRUE, start |-> start, language |-> language, end |-> end + 4]>>
          \o ParseCodeBlocksFrom(text, end + 4)

ParseCodeBlocks(text) == ParseCodeBlocksFrom(text, 0)

\* _find_split_point: block_info is <<>> for None, else the block in a
\* sequence
FindSplitPoint(text, start, target, code_blocks) ==
  LET hits == {i \in DOMAIN code_blocks :
                 code_blocks[i].start <= target /\ target <= code_blocks[i].end}
      in_block == IF hits = {} THEN <<>> ELSE <<code_blocks[MinOf(hits)]>>
      para == {o \in (start + 1)..target :
                 o > 0 /\ Slice(text, o - 1, o + 1) = <<NL, NL>>}
      line == {o \in (start + 1)..target : At(text, o) = NL}
      code == IF in_block = <<>> THEN {}
              ELSE {o \in (MaxOf({start, in_block[1].start}) + 1)..target :
                      At(text, o) = NL}
  IN IF in_block = <<>> /\ para # {}
     THEN [position |-> MaxOf(para), in_code_block |-> FALSE, block_info |-> <<>>]
     ELSE IF in_block = <<>> /\ line # {}
     THEN [position |-> MaxOf(line), in_code_block |-> FALSE, block_info |-> <<>>]
     ELSE IF in_block # <<>> /\ code # {}
     THEN [position |-> MaxOf(code), in_code_block |-> TRUE, block_info |-> in_block]
     ELSE [position |-> target, in_code_block |-> in_block # <<>>,
           block_info |-> in_block]

\* str(n)
RECURSIVE Digits(_)
Digits(n) ==
  LET d == <<"0", "1", "2", "3", "4", "5", "6", "7", "8", "9">>
  IN IF n < 10 THEN <<d[n + 1]>> ELSE Digits(n \div 10) \o <<d[(n % 10) + 1]>>

\* the fence line that opens a block again, the closing fence and (i/N)
OpenTag(block) == Fence \o block.language \o <<NL>>
CloseTag == <<NL>> \o Fence
Marker(i, total) == <<"(">> \o Digits(i) \o <<"/">> \o Digits(total) \o <<")", " ">>

\* the continuation markers, added when the loop is left
Marked(chunks) ==
  IF Len(chunks) > 1
  THEN [i \in 1..Len(chunks) |-> Marker(i, Len(chunks)) \o chunks[i]]
  ELSE chunks

\* current_pos = split_pos
AfterSplitMutant(split_pos) == split_pos + 1
AfterSplit(split_pos) == split_pos

\* split_message_with_code_blocks: the test before the loop (on the first
\* pass) and one pass of the while loop, with what follows the loop when the
\* pass leaves it
SplitPass(s) ==
  LET text == s.text
      remaining == Slice(text, s.pos, Len(text))
      opened(chunk) == IF s.cont # <<>> THEN OpenTag(s.cont[1]) \o chunk ELSE chunk
      split_info == FindSplitPoint(text, s.pos, s.pos + SAFE_LIMIT, ParseCodeBlocks(text))
      chunk == opened(Slice(text, s.pos, split_info.position))
  IN IF s.chunks = <<>> /\ Len(text) <= MAX_LENGTH
     THEN [s EXCEPT !.chunks = <<text>>, !.done = TRUE]
     ELSE IF s.pos >= Len(text)
     THEN [s EXCEPT !.chunks = Marked(@), !.done = TRUE]
     ELSE IF Len(remaining) <= SAFE_LIMIT
     THEN [s EXCEPT !.chunks = Marked(Append(@, opened(remaining))), !.done = TRUE]
     ELSE IF split_info.in_code_block
     THEN [s EXCEPT !.chunks = Append(@, chunk \o CloseTag),
                    !.cont = split_info.block_info,
                    !.closed = @ + 1,
                    !.pos = AfterSplit(split_info.position)]
     ELSE [s EXCEPT !.chunks = Append(@, chunk),
                    !.cont = <<>>,
                    !.pos = AfterSplit(split_info.position)]

\* The reader's side.  A part without its (i/N) marker
Unmarked(part) ==
  LET close == Find(part, <<")", " ">>, 0)
      digits == {"0", "1", "2", "3", "4", "5", "6", "7", "8", "9", "/"}
  IN IF /\ part # <<>>
        /\ part[1] = "("
        /\ close > 1
        /\ \A i \in 1..(close - 1) : At(part, i) \in digits
     THEN Slice(part, close + 2, Len(part))
     ELSE part

\* a part that ends with a closing fence, and one that starts with a fence line
EndsClosed(p) == Len(p) >= 4 /\ Slice(p, Len(p) - 4, Len(p)) = CloseTag
StartsOpened(p) == Len(p) >= 4 /\ SubSeq(p, 1, 3) = Fence /\ Find(p, <<NL>>, 3) # -1

\* the parts joined again: the markers go, and where a part ends with a
\* closing fence and the next starts with a fence line, both fences go
RECURSIVE Concat(_)
Concat(ss) == IF ss = <<>> THEN <<>> ELSE Head(ss) \o Concat(Tail(ss))

Rejoined(parts) ==
  LET b == [i \in DOMAIN parts |-> Unmarked(parts[i])]
      cut(i) == i < Len(b) /\ EndsClosed(b[i]) /\ StartsOpened(b[i + 1])
      body(i) ==
        LET from == IF i > 1 /\ cut(i - 1) THEN Find(b[i], <<NL>>, 3) + 1 ELSE 0
            to == IF cut(i) THEN Len(b[i]) - 4 ELSE Len(b[i])
        IN Slice(b[i], from, to)
  IN Concat([i \in DOMAIN b |-> body(i)])

\* A message of MAX_LENGTH - 1 to MaxText characters is to be sent.
InitSplit ==
  /\ files = NoFiles
  /\ now = 1
  /\ alive = Panes
  /\ watchers = Discover(NoWatchers, Panes, NoFiles).w
  /\ worder = Discover(NoWatchers, Panes, NoFiles).o
  /\ pane_to_transcript = Discover(NoWatchers, Panes, NoFiles).p2t
  /\ state = <<>>
  /\ chat = <<>>
  /\ keys = <<>>
  /\ pc = "sleep"
  /\ restarts = 0
  /\ operator_pane = OperatorSessionPane
  /\ registry = ("w" :> TaskData("d1", 2, "p1", "active"))
  /\ markers = [d \in Dirs |-> IF d = "d1" THEN FullMarker("w", 2) ELSE NoMarker]
  /\ marker_status = NoStatus
  /\ state_file = NoStateFile
  /\ topics = <<[name |-> "w", status |-> "open"]>>
  /\ warned = FALSE
  /\ posts = <<>>
  /\ spawn = NoSpawn
  /\ session = NoSession
  /\ resume = NoResume
  /\ trees = {}
  /\ pidfile = ""
  /\ daemons = NoDaemons
  /\ disk = WholeDisk
  /\ updates = NoUpdates
  /\ outage = "none"
  /\ \E n \in (MAX_LENGTH - 1)..MaxText :
       \E text \in [1..n -> Chars] : split = [NoSplit EXCEPT !.text = text]

\* split_message_with_code_blocks goes on by one pass
SplitStep ==
  /\ ~split.done
  /\ split' = SplitPass(split)
  /\ UNCHANGED <<state_file, marker_status, files, now, alive, watchers, worder, pane_to_transcript,
                 state, chat, keys, pc, restarts, routing, session, resume,
                 trees, pidfile, daemons, disk, updates, outage>>

NextSplit == SplitStep

SpecSplit == InitSplit /\ [][NextSplit]_vars

\* ------------------------------------------------------ the commands
\* a documented command, sent in the configured group: in General or in the
\* topic of task w
CommandMessages ==
  [text : CommandTexts, chat : {"group"},
   topic : {GeneralTopic, GeneralTopic + 1}, reply_to : {0}]

\* The daemon's loop and the commands that come in, while sessions die and
\* the registry is lost.
NextCommands ==
  \/ Tick(FALSE, {})
  \/ \E msg \in CommandMessages, conf \in BOOLEAN, ok \in BOOLEAN :
       HandleMessage(msg, conf, ok)
  \/ EndTick(TRUE, FALSE)
  \/ \E p \in Panes : PaneDies(p)
  \/ RegistryLost

SpecCommands == Init /\ [][NextCommands]_vars

\* ---------------------------------------------- presses and replies together
\* One agent writing whole records, the daemon's loop, and the user pressing
\* the buttons of the notifications and replying to them.
NextHandled ==
  \/ \E rec \in NextRecords(files, "t1") : AppendRecord("t1", rec, FALSE)
  \/ \E d \in TimeSteps : Advance(d)
  \/ PaneDies("p1")
  \/ Tick(FALSE, {})
  \/ \E m \in 1..MaxMsgs, d \in CbData : HandleCallback(m, d, FALSE)
  \/ \E m \in 1..MaxMsgs : ReplyToTracked(m, "hi")
  \/ EndTick(TRUE, FALSE)

SpecHandled == Init /\ [][NextHandled]_vars

\* ------------------------------------------------ spawns that get no pane
\* The operator spawning session tasks step by step and worktree tasks,
\* while sessions die; the daemon's loop and /rebuild-registry.
NextSpawnFail ==
  \/ \E p \in Panes : PaneDies(p)
  \/ Tick(FALSE, {})
  \/ EndTick(TRUE, FALSE)
  \/ \E dir \in Dirs, name \in SpawnNames, conf \in BOOLEAN : SpawnStart(dir, name, conf)
  \/ \E res \in TopicResults : SpawnCreateTopic(res)
  \/ SpawnWelcome
  \/ SpawnWriteMarker
  \/ \E sessionOk \in BOOLEAN : SpawnRegister(sessionOk)
  \/ \E conf \in BOOLEAN, fail \in WorktreeFailures :
       SpawnWorktreeTask("d1", "w", conf, fail)
  \/ HandleMessage([text |-> "/rebuild-registry", chat |-> "group",
                   topic |-> GeneralTopic, reply_to |-> 0], TRUE, TRUE)

SpecSpawnFail == InitFresh /\ [][NextSpawnFail]_vars

\* ------------------------------------------------- writers of STATE_FILE
\* The hook has sent its notification and calls save_message_state:
\* read_state returns the file's document, read under the shared lock.  A
\* file that does not exist gives the empty document too.
HookRead(h) ==
  /\ state_file.hooks[h].at = "idle"
  /\ state_file.next_id <= MaxIds
  /\ state_file' = [state_file EXCEPT
                      !.hooks[h] = [msg_id |-> state_file.next_id, at |-> "read",
                                    read |-> state_file.content],
                      !.next_id = @ + 1]
  /\ UNCHANGED <<marker_status, split, outage, updates, disk, files, now, alive,
                 watchers, worder, pane_to_transcript, state, chat, keys, pc,
                 restarts, routing, session, resume, trees, pidfile, daemons>>

\* save_message_state: state[str(msg_id)] = entry, then write_state under
\* the exclusive lock
HookWrite(h) ==
  /\ state_file.hooks[h].at = "read"
  /\ state_file' = [state_file EXCEPT
                      !.content = state_file.hooks[h].read \cup {state_file.hooks[h].msg_id},
                      !.saved = @ \cup {state_file.hooks[h].msg_id},
                      !.hooks[h] = IdleHook]
  /\ UNCHANGED <<marker_status, split, outage, updates, disk, files, now, alive,
                 watchers, worder, pane_to_transcript, state, chat, keys, pc,
                 restarts, routing, session, resume, trees, pidfile, daemons>>

\* State(): the daemon starts and reads the file, without the lock
StateInit ==
  /\ state_file' = [state_file EXCEPT !.data = state_file.content]
  /\ UNCHANGED <<marker_status, split, outage, updates, disk, files, now, alive,
                 watchers, worder, pane_to_transcript, state, chat, keys, pc,
                 restarts, routing, session, resume, trees, pidfile, daemons>>

\* State.add for a message the daemon sent, and _flush: the file is
\* replaced by the daemon's document, without the lock
StateAdd ==
  /\ state_file.next_id <= MaxIds
  /\ state_file' = [state_file EXCEPT
                      !.data = @ \cup {state_file.next_id},
                      !.content = state_file.data \cup {state_file.next_id},
                      !.next_id = @ + 1]
  /\ UNCHANGED <<marker_status, split, outage, updates, disk, files, now, alive,
                 watchers, worder, pane_to_transcript, state, chat, keys, pc,
                 restarts, routing, session, resume, trees, pidfile, daemons>>

\* State.update: the fields of an entry the daemon has, and _flush
StateUpdate(id) ==
  /\ id \in state_file.data
  /\ state_file' = [state_file EXCEPT !.content = state_file.data]
  /\ UNCHANGED <<marker_status, split, outage, updates, disk, files, now, alive,
                 watchers, worder, pane_to_transcript, state, chat, keys, pc,
                 restarts, routing, session, resume, trees, pidfile, daemons>>

\* State.remove: an entry the daemon has, and _flush
StateRemove(id) ==
  /\ id \in state_file.data
  /\ state_file' = [state_file EXCEPT
                      !.data = @ \ {id},
                      !.content = state_file.data \ {id},
                      !.removed = @ \cup {id}]
  /\ UNCHANGED <<marker_status, split, outage, updates, disk, files, now, alive,
                 watchers, worder, pane_to_transcript, state, chat, keys, pc,
                 restarts, routing, session, resume, trees, pidfile, daemons>>

\* Hook processes saving the messages they sent, the daemon starting and
\* adding, updating and removing entries.
NextStateFile ==
  \/ \E h \in Hooks : HookRead(h)
  \/ \E h \in Hooks : HookWrite(h)
  \/ StateInit
  \/ StateAdd
  \/ \E id \in 1..MaxIds : StateUpdate(id)
  \/ \E id \in 1..MaxIds : StateRemove(id)

SpecStateFile == Init /\ [][NextStateFile]_vars

\* ------------------------------------------------------ checked properties
ReadyIds(w) == {w.ready[i].tool_id : i \in DOMAIN w.ready}

\* C1: in every watcher, a tool that check() returns was appended to
\* tool_queue after no tool that is still unannounced and without a result:
\* each tool queued before it was returned by an earlier check() or has its
\* tool_result in tool_results.
C1_FifoByDetection ==
  \A p \in DOMAIN watchers :
    LET w == watchers[p]
    IN \A i, j \in DOMAIN w.detected :
         (i < j /\ w.detected[j] \in ReadyIds(w))
           => (w.detected[i] \in w.returned \/ w.detected[i] \in w.tool_results)

\* the second of two queued tools is returned, the first was returned by an
\* earlier check() and got its result since
C1_Witness ==
  \E p \in DOMAIN watchers :
    LET w == watchers[p]
    IN /\ Len(w.detected) >= 2
       /\ w.detected[2] \in ReadyIds(w)
       /\ w.detected[1] \in w.returned
       /\ w.detected[1] \in w.tool_results

\* C2: a tool that check() returns has no result in tool_results and is
\* older than NOTIFY_DELAY by the clock of that check(); and a tool whose
\* result is in tool_results without it having been returned is not returned
\* by any later check().
C2_State ==
  \A p \in DOMAIN watchers :
    \A x \in SeqToSet(watchers[p].ready) :
      /\ x.tool_id \notin watchers[p].tool_results
      /\ now - x.detected_at > NOTIFY_DELAY

C2_Step ==
  \A p \in DOMAIN watchers \cap DOMAIN watchers' :
    \A id \in watchers[p].tool_results \ (watchers[p].returned \cup ReadyIds(watchers[p])) :
      id \notin ReadyIds(watchers'[p])

C2_AfterDelayWithoutResult == []C2_State /\ [][C2_Step]_vars

\* a tool's result was read when its age was exactly NOTIFY_DELAY, before any
\* check() returned it, and another tool has been returned
C2_Witness ==
  \E p \in DOMAIN watchers :
    LET w == watchers[p]
    IN /\ NOTIFY_DELAY \in w.dropped
       /\ \E i \in DOMAIN w.detected :
            /\ w.detected[i] \in w.tool_results
            /\ w.detected[i] \notin w.returned \cup ReadyIds(w)
       /\ w.ready # <<>>

\* C4: after a pass of the loop over a transcript whose last line is half
\* written, the watcher's offset is the start of that line.
C4_Step ==
  (pc = "sleep" /\ pc' = "updates")
    => \A p \in DOMAIN watchers' :
         files[p].partial => watchers'[p].position = 2 * (Len(files[p].lines) - 1)

C4_OffsetStaysAtPartialLine == [][C4_Step]_vars

\* C5: no tool call is skipped: every tool_use of a tool outside SKIP_TOOLS in
\* a whole record that was written after the watcher attached and that lies
\* before the watcher's offset has been appended to tool_queue.  (The offset
\* never goes back, so a record it has passed is never read again.)
C5_NoRecordLost ==
  \A p \in DOMAIN watchers :
    LET w == watchers[p]
        f == files[p]
    IN \A i \in DOMAIN WholeLines(f) :
         (2 * (i - 1) >= w.attached /\ 2 * i <= w.position)
           => \A c \in SeqToSet(f.lines[i].tools) :
                c.name \notin SKIP_TOOLS => c.id \in SeqToSet(w.detected)

\* C6: no two permission notifications in the chat are for the same tool_use
\* id, and a tool that check() returns comes from a record that starts at or
\* after the offset the watcher was attached at.
C6_AtMostOneNotification ==
  /\ \A i, j \in DOMAIN chat :
       (i # j /\ chat[i].kind = "permission" /\ chat[j].kind = "permission")
         => chat[i].tool # chat[j].tool
  /\ \A p \in DOMAIN watchers :
       \A x \in SeqToSet(watchers[p].ready) :
         \E i \in DOMAIN files[p].lines :
           /\ 2 * (i - 1) >= watchers[p].attached
           /\ \E c \in SeqToSet(files[p].lines[i].tools) : c.id = x.tool_id

\* after a restart: a watcher attached behind the record of a tool that was
\* announced before returns a tool of a later record
C6_Witness ==
  /\ restarts > 0
  /\ \E p \in DOMAIN watchers :
       /\ watchers[p].ready # <<>>
       /\ \E m \in DOMAIN chat, i \in DOMAIN files[p].lines :
            /\ chat[m].kind = "permission"
            /\ 2 * i <= watchers[p].attached
            /\ \E c \in SeqToSet(files[p].lines[i].tools) : c.id = chat[m].tool

\* C3: between two passes of the loop, no pane has two permission_prompt
\* entries that are unhandled and whose tool has no tool_result in the
\* transcript.
PendingPrompts(pane) ==
  {m \in DOMAIN state :
     /\ state[m].pane = pane
     /\ state[m].type = "permission_prompt"
     /\ ~state[m].handled
     /\ state[m].tool_use_id \notin ResultsIn(files[state[m].transcript_path])}

C3_OnePendingPromptPerPane ==
  pc = "sleep" => \A pane \in Panes : Cardinality(PendingPrompts(pane)) <= 1

\* The entries the completion window is about: unhandled, and the tool's id
\* is in tool_results of the watcher of the entry's transcript.
ToolCompleted(m) ==
  /\ ~state[m].handled
  /\ state[m].tool_use_id # ""
  /\ state[m].transcript_path \in DOMAIN watchers
  /\ state[m].tool_use_id \in watchers[state[m].transcript_path].tool_results

\* What the claim C7 says of handle_completed_tools run now, whatever the
\* configuration and the fate of the deleteMessage calls: an entry younger
\* than the threshold is removed and its message deleted, an older one stays,
\* handled, under the label Expired.
C7_AsClaimed ==
  pc = "updates" =>
    \A conf \in BOOLEAN, delOk \in SUBSET DOMAIN chat :
      LET s == HandleCompletedTools([state |-> state, chat |-> chat],
                                    watchers, now, conf, delOk)
      IN \A m \in DOMAIN state :
           ToolCompleted(m) =>
             IF now - state[m].notified_at < QUICK_RESPONSE_THRESHOLD
             THEN s.chat[m].deleted /\ m \notin DOMAIN s.state
             ELSE /\ m \in DOMAIN s.state
                  /\ s.state[m].handled
                  /\ s.chat[m].buttons = "Expired"
                  /\ ~s.chat[m].deleted

\* C7: handle_completed_tools run now while the group is configured: an
\* entry younger than the threshold is removed, and its message is deleted
\* exactly if the deleteMessage call succeeds; an older one stays, handled,
\* under the label Expired, its message not deleted.  Run while the group is
\* not configured it changes nothing.
C7_CompletionWindow ==
  pc = "updates" =>
    \A delOk \in SUBSET DOMAIN chat :
      LET cur == [state |-> state, chat |-> chat]
          s == HandleCompletedTools(cur, watchers, now, TRUE, delOk)
      IN /\ HandleCompletedTools(cur, watchers, now, FALSE, delOk) = cur
         /\ \A m \in DOMAIN state :
              ToolCompleted(m) =>
                IF now - state[m].notified_at < QUICK_RESPONSE_THRESHOLD
                THEN /\ m \notin DOMAIN s.state
                     /\ s.chat[m].deleted <=> m \in delOk
                ELSE /\ m \in DOMAIN s.state
                     /\ s.state[m].handled
                     /\ s.chat[m].buttons = "Expired"
                     /\ ~s.chat[m].deleted

\* after a pass: the message of one tool is deleted and its entry gone, the
\* entry of another tool, completed at the age of the threshold, is handled
\* under the label Expired
C7_Witness ==
  /\ pc = "sleep"
  /\ \E m \in DOMAIN chat :
       chat[m].kind = "permission" /\ chat[m].deleted /\ m \notin DOMAIN state
  /\ \E m \in DOMAIN state :
       /\ state[m].type = "permission_prompt"
       /\ state[m].handled
       /\ chat[m].buttons = "Expired"
       /\ ~chat[m].deleted
       /\ now - state[m].notified_at = QUICK_RESPONSE_THRESHOLD

\* The entries the supersession window is about: idle, not marked superseded,
\* and some watcher has seen a tool_use of the entry's message.
IdleSuperseded(m) ==
  /\ state[m].type = "idle"
  /\ ~state[m].superseded
  /\ state[m].claude_msg_id # ""
  /\ \E p \in DOMAIN watchers : state[m].claude_msg_id \in watchers[p].tool_use_msg_ids

\* What the claim C8 says of handle_superseded_idle run now, whatever the
\* configuration and the fate of the deleteMessage calls.
C8_AsClaimed ==
  pc = "updates" =>
    \A conf \in BOOLEAN, delOk \in SUBSET DOMAIN chat :
      LET s == HandleSupersededIdle([state |-> state, chat |-> chat],
                                    watchers, now, conf, delOk)
      IN \A m \in DOMAIN state :
           IdleSuperseded(m) =>
             IF now - state[m].notified_at < IDLE_SUPERSESSION_THRESHOLD
             THEN s.chat[m].deleted /\ m \notin DOMAIN s.state
             ELSE /\ m \in DOMAIN s.state
                  /\ s.state[m].superseded
                  /\ ~s.chat[m].deleted

\* C8: handle_superseded_idle run now while the group is configured: an idle
\* entry younger than the threshold is removed, and its message is deleted
\* exactly if the deleteMessage call succeeds; an older one stays, marked
\* superseded, its message not deleted.  Run while the group is not
\* configured it changes nothing.
C8_SupersessionWindow ==
  pc = "updates" =>
    \A delOk \in SUBSET DOMAIN chat :
      LET cur == [state |-> state, chat |-> chat]
          s == HandleSupersededIdle(cur, watchers, now, TRUE, delOk)
      IN /\ HandleSupersededIdle(cur, watchers, now, FALSE, delOk) = cur
         /\ \A m \in DOMAIN state :
              IdleSuperseded(m) =>
                IF now - state[m].notified_at < IDLE_SUPERSESSION_THRESHOLD
                THEN /\ m \notin DOMAIN s.state
                     /\ s.chat[m].deleted <=> m \in delOk
                ELSE /\ m \in DOMAIN s.state
                     /\ s.state[m].superseded
                     /\ s.chat[m].buttons = chat[m].buttons
                     /\ ~s.chat[m].deleted

\* after a pass: one idle message is deleted and its entry gone, the entry of
\* another, superseded at the age of the threshold, is marked superseded
C8_Witness ==
  /\ pc = "sleep"
  /\ \E m \in DOMAIN chat :
       chat[m].kind = "idle" /\ chat[m].deleted /\ m \notin DOMAIN state
  /\ \E m \in DOMAIN state :
       /\ state[m].type = "idle"
       /\ state[m].superseded
       /\ ~chat[m].deleted
       /\ now - state[m].notified_at = IDLE_SUPERSESSION_THRESHOLD

\* handle_callback run now on the press (m, d)
Pressed(m, d) ==
  HandleCallbackOn([state |-> state, chat |-> chat, keys |-> keys],
                   files, alive, m, d, FALSE)

\* the unhandled permission_prompt entries of a pane
OpenPrompts(pane) ==
  {o \in DOMAIN state :
     /\ state[o].pane = pane
     /\ state[o].type = "permission_prompt"
     /\ ~state[o].handled}

\* What the claim C9 says of a press of Deny on an unhandled permission_prompt
\* entry, processed now: all unhandled permission_prompt entries of its pane
\* become handled, every other entry stays as it is.
C9_AsClaimed ==
  pc = "updates" =>
    \A m \in DOMAIN state :
      m \in OpenPrompts(state[m].pane) =>
        LET s == Pressed(m, "n")
        IN /\ DOMAIN s.state = DOMAIN state
           /\ \A o \in DOMAIN state :
                IF o \in OpenPrompts(state[m].pane)
                THEN s.state[o].handled
                ELSE s.state[o] = state[o]

\* C9: a press of Deny on an unhandled permission_prompt entry, processed now
\* while the entry's pane exists and its tool has no tool_result in the
\* transcript: the keys of the denial go to the pane, all unhandled
\* permission_prompt entries of the pane become handled and nothing else of
\* them changes, every other entry stays as it is.  If the pane is gone or
\* the tool has a result, no key is sent and the pressed entry alone becomes
\* handled.
C9_BatchExpiry ==
  pc = "updates" =>
    \A m \in DOMAIN state :
      m \in OpenPrompts(state[m].pane) =>
        LET s == Pressed(m, "n")
            accepted ==
              /\ state[m].pane \in alive
              /\ state[m].tool_use_id \notin ResultsIn(files[state[m].transcript_path])
        IN /\ DOMAIN s.state = DOMAIN state
           /\ accepted =>
                /\ s.keys = Append(keys, [pane |-> state[m].pane,
                                          keys |-> <<"Down", "Down", "Enter">>])
                /\ \A o \in DOMAIN state :
                     IF o \in OpenPrompts(state[m].pane)
                     THEN s.state[o] = [state[o] EXCEPT !.handled = TRUE]
                     ELSE s.state[o] = state[o]
           /\ ~accepted =>
                /\ s.keys = keys
                /\ \A o \in DOMAIN state :
                     IF o = m
                     THEN s.state[o] = [state[o] EXCEPT !.handled = TRUE]
                     ELSE s.state[o] = state[o]

\* after an accepted press of Deny: the pressed entry and an older entry of
\* the same pane are handled, the older one by the batch denial, while an
\* entry of the other pane is still unhandled
C9_Witness ==
  /\ pc = "updates"
  /\ \E m, o \in DOMAIN state :
       /\ o # m
       /\ state[o].pane = state[m].pane
       /\ state[m].type = "permission_prompt" /\ state[m].handled
       /\ state[o].type = "permission_prompt" /\ state[o].handled
       /\ chat[m].buttons = "Reply"
       /\ chat[o].buttons = "Denied via batch denial"
       /\ keys = <<[pane |-> state[m].pane, keys |-> <<"Down", "Down", "Enter">>]>>
  /\ \E x \in DOMAIN state : state[x].pane = "p2" /\ ~state[x].handled

\* C10: a press (m, d) processed now sends no key and leaves message-state
\* as it is when m is not in message-state or its entry is handled; it sends
\* no key when the entry is not a permission_prompt and the pane has a newer
\* entry; it sends no key and, for the buttons of a prompt, makes the entry
\* handled when the entry is a permission_prompt whose tool has a tool_result
\* in the transcript.  (The button with the payload "_" is the label that
\* replaces the buttons of a message: it exists only where the entry is
\* handled or gone, which is the first conjunct.)
C10_RejectedPresses ==
  /\ \A m \in DOMAIN state :
       chat[m].buttons \notin {"", "Allow|Deny"} => state[m].handled
  /\ pc = "updates" =>
       \A m \in 1..MaxMsgs, d \in CbData :
         LET s == Pressed(m, d)
         IN IF m \notin DOMAIN state \/ state[m].handled
            THEN s.keys = keys /\ s.state = state
            ELSE /\ ( /\ state[m].type # "permission_prompt"
                      /\ \E o \in DOMAIN state : o > m /\ state[o].pane = state[m].pane )
                    => s.keys = keys
                 /\ ( /\ state[m].type = "permission_prompt"
                      /\ state[m].tool_use_id \in ResultsIn(files[state[m].transcript_path]) )
                    => /\ s.keys = keys
                       /\ d \in {"y", "n"} => s.state[m].handled

\* after a press on a prompt whose tool has a result that the watcher has not
\* read yet: the entry is handled under the label Expired and no key was sent
C10_Witness ==
  /\ pc = "updates"
  /\ keys = <<>>
  /\ \E m \in DOMAIN state :
       /\ state[m].type = "permission_prompt"
       /\ state[m].handled
       /\ chat[m].buttons = "Expired"
       /\ state[m].tool_use_id \in ResultsIn(files[state[m].transcript_path])
       /\ state[m].tool_use_id \notin watchers[state[m].transcript_path].tool_results

\* the payloads handle_callback treats as answers to a permission prompt
Answers == {"y", "a", "n"}

\* C11: a press with the payload y, a or n on an unhandled permission_prompt
\* entry whose tool has no tool_result, processed now: if the entry's pane
\* exists, one key sequence is sent, to that pane, and it is Enter for y,
\* Down Enter for a and Down Down Enter for n; nothing is sent to another
\* pane, and nothing at all when the pane is gone.
C11_AnswerKeys ==
  pc = "updates" =>
    \A m \in DOMAIN state, d \in Answers :
      ( /\ m \in OpenPrompts(state[m].pane)
        /\ state[m].tool_use_id \notin ResultsIn(files[state[m].transcript_path]) )
      => LET s == Pressed(m, d)
             claimed == IF d = "y" THEN <<"Enter">>
                        ELSE IF d = "a" THEN <<"Down", "Enter">>
                        ELSE <<"Down", "Down", "Enter">>
         IN IF state[m].pane \in alive
            THEN s.keys = Append(keys, [pane |-> state[m].pane, keys |-> claimed])
            ELSE s.keys = keys

\* after a press of Allow on the prompt of a tool without a result: Enter
\* went to the entry's pane and nothing else was sent
C11_Witness ==
  /\ pc = "updates"
  /\ \E m \in DOMAIN state :
       /\ state[m].type = "permission_prompt"
       /\ state[m].handled
       /\ state[m].tool_use_id \notin ResultsIn(files[state[m].transcript_path])
       /\ keys = <<[pane |-> state[m].pane, keys |-> <<"Enter">>]>>

\* C12: an accepted press of Allow or Deny on an unhandled permission_prompt
\* entry (its pane exists, its tool has no tool_result), processed now: the
\* button row of the message becomes the label Allowed for y and Denied for
\* n, the rows of the other entries the denial expires become Denied via
\* batch denial, and all these entries are handled.
C12_FinalLabels ==
  pc = "updates" =>
    \A m \in DOMAIN state, d \in {"y", "n"} :
      ( /\ m \in OpenPrompts(state[m].pane)
        /\ state[m].pane \in alive
        /\ state[m].tool_use_id \notin ResultsIn(files[state[m].transcript_path]) )
      => LET s == Pressed(m, d)
             others == IF d = "n" THEN OpenPrompts(state[m].pane) \ {m} ELSE {}
         IN /\ s.chat[m].buttons = (IF d = "y" THEN "Allowed" ELSE "Denied")
            /\ s.state[m].handled
            /\ \A o \in others :
                 /\ s.chat[o].buttons = "Denied via batch denial"
                 /\ s.state[o].handled

\* _handle_reply_to_tracked run now on a reply "hi" to message m, the scan of
\* the transcript returning pick
Replied(m, pick) ==
  HandleReplyOn([state |-> state, chat |-> chat, keys |-> keys],
                alive, m, "hi", pick)

\* the tool_use ids of a transcript that have no tool_result in it
Unanswered(path) == ToolsIn(files[path]) \ ResultsIn(files[path])

\* C13: a reply to a tracked message whose pane exists, processed now, with
\* any result the scan of the transcript can give: if the parent entry's tool
\* is a tool_use of the transcript without tool_result, the text goes
\* through the permission dialog (Down Down Enter, the text, Enter, after the
\* line was cleared) to the entry's pane and the entry becomes handled; if
\* the transcript has a tool_use without tool_result but the entry's tool is
\* none, no key is sent and a refusal is posted; if the transcript has no
\* tool_use without tool_result, the text goes to the pane as plain input.
C13_ReplyRouting ==
  pc = "updates" =>
    \A m \in DOMAIN state :
      state[m].pane \in alive =>
        \A pick \in PendingPicks(files, state[m].transcript_path) :
          LET s == Replied(m, pick)
              open == Unanswered(state[m].transcript_path)
          IN IF state[m].tool_use_id \in open
             THEN /\ s.keys = Append(keys, [pane |-> state[m].pane,
                         keys |-> <<"C-u", "Down", "Down", "Enter", "hi", "Enter">>])
                  /\ s.state[m].handled
             ELSE IF open # {}
             THEN /\ s.keys = keys
                  /\ Len(s.chat) = Len(chat) + 1
                  /\ s.chat[Len(s.chat)].kind = "refusal"
             ELSE s.keys = Append(keys, [pane |-> state[m].pane,
                                         keys |-> <<"C-u", "hi", "Enter">>])

Inbound ==
  [alive |-> alive, state |-> state, chat |-> chat, keys |-> keys,
   operator_pane |-> operator_pane, registry |-> registry,
   posts |-> posts, marker_status |-> marker_status, sent |-> FALSE]

\* handle_message for one inbound message, on the state as it is
Handled(msg, conf, ok, pick) ==
  HandleMessageOn(Inbound, msg, conf, ok, ok, pick, markers, <<"d1", "d2">>)

\* C15: every inbound message is injected into at most one pane, and a
\* message from a group other than the configured one into none.
\* Violated: "/todo x" posted in a foreign group reaches the command handler
\* before the chat is looked at, and _handle_todo sends its prompt to the
\* operator pane without checking the chat.
C15_OnePaneNoneFromForeignGroup ==
  pc = "updates" =>
    \A msg \in Messages, conf \in BOOLEAN, ok \in BOOLEAN :
      \A pick \in (IF msg.reply_to \in DOMAIN state
                   THEN PendingPicks(files, state[msg.reply_to].transcript_path)
                   ELSE {""}) :
        LET s == Handled(msg, conf, ok, pick)
        IN /\ Len(s.keys) <= Len(keys) + 1
           /\ msg.chat = "foreign" => s.keys = keys

\* C16: a text that is no command and no reply, posted in the topic of a
\* task that is not paused, is delivered to the pane of the task's
\* directory, also when the registry entry has no pane or a pane that is
\* gone (tmux new-session succeeding).
\* Violated: handle_message routes to send_to_worker only when
\* get_worker_pane_for_topic is truthy, so with an entry without pane the
\* message is dropped before the discovery in send_to_worker can run.
C16_DeliveredToTaskPane ==
  pc = "updates" =>
    \A name \in DOMAIN registry :
      LET task == registry[name]
          msg == [text |-> "hi", chat |-> "group", topic |-> task.topic_id,
                  reply_to |-> 0]
          s == Handled(msg, TRUE, TRUE, "")
      IN (task.status # "paused" /\ FindTaskByTopic(registry, task.topic_id) = name)
         => /\ Len(s.keys) = Len(keys) + 1
            /\ s.keys[Len(s.keys)] =
                 [pane |-> PaneOfDir(task.path), keys |-> TextKeys(FormatIncoming("hi"))]

RECURSIVE Warnings(_)
Warnings(ps) ==
  IF ps = <<>> THEN 0
  ELSE (IF Head(ps).kind = "warning" THEN 1 ELSE 0) + Warnings(Tail(ps))

\* C18: one daemon process sends the 'cannot create topics' warning at most
\* once (a step that is not a restart sends none when one was sent, and
\* never two), and an event from a directory whose auto-registration failed,
\* which left its pending marker and no registry entry, goes to General
\* whatever createForumTopic would answer now.
C18_WarnOnceThenGeneral ==
  /\ [][/\ Warnings(posts') <= Warnings(posts) + 1
        /\ Warnings(posts') > Warnings(posts) => warned'
        /\ (warned /\ restarts' = restarts)
             => warned' /\ Warnings(posts') = Warnings(posts)]_vars
  /\ [](\A d \in Dirs, res \in TopicResults :
          (/\ markers[d].kind = "pending"
           /\ FindTaskByPath(registry, d) = ""
           /\ PaneOfDir(d) # operator_pane)
          => SendToChatOrTopic(Routes, operator_pane, PaneOfDir(d), TRUE, res).dest
               = GeneralTopic)

\* both directories failed for want of rights in one process, one warning
\* was sent, and both keep their pending markers
C18_Witness ==
  /\ warned
  /\ restarts = 0
  /\ Warnings(posts) = 1
  /\ \A d \in Dirs : markers[d].kind = "pending" /\ FindTaskByPath(registry, d) = ""
  /\ spawn = NoSpawn
  /\ Len(chat) = 2

\* a marker with topic_id names a topic that was created, under its name
MarkerHoldsItsTopic ==
  \A d \in Dirs :
    markers[d].kind = "complete" =>
      \E i \in DOMAIN topics : /\ markers[d].topic_id = TopicId(i)
                               /\ topics[i].name = markers[d].name

Referenced ==
  {markers[d].topic_id : d \in {x \in Dirs : markers[x].kind = "complete"}}
  \cup {registry[n].topic_id : n \in DOMAIN registry}

\* C20: while no topic creation is in progress, every open topic of the
\* group is the topic_id of some marker or registry entry.
\* Violated: a creation killed after createForumTopic and before step 4
\* leaves a topic that only the killed process knew; the pending marker has
\* no topic_id, and neither restart nor /rebuild-registry ever completes or
\* removes it.
C20_NoTopicOrphaned ==
  spawn = NoSpawn =>
    \A i \in DOMAIN topics : topics[i].status = "open" => TopicId(i) \in Referenced

\* C21: for every task name there is at most one open topic of that name and
\* at most one directory whose marker names it (the registry is keyed by
\* name and cannot hold two entries).
\* Violated: the name is only looked up in the registry (spawn_session,
\* try_auto_register), so a name that lives in a marker but not in the
\* registry is given out again, with a second topic and a second marker.
C21_OnePerName ==
  \A n \in {"w", "w-1", "w-2"} :
    spawn = NoSpawn =>
    /\ Cardinality({i \in DOMAIN topics : topics[i].name = n /\ topics[i].status = "open"}) <= 1
    /\ Cardinality({d \in Dirs : markers[d].kind = "complete" /\ markers[d].name = n}) <= 1

\* C22: in every registry state a task whose status is paused has no pane.
\* Violated: routing a notification and sending to a worker both store the
\* pane they find for the task's directory without looking at its status.
C22_PausedHasNoPane ==
  \A n \in DOMAIN registry : registry[n].status = "paused" => registry[n].pane = ""

C24_ResumeReusesSession ==
  /\ [](/\ (resume.at = "registry" /\ resume.launched)
             => (session.creator = "self" /\ ~resume.existed)
        /\ (resume.at \in {"start", "registry"} /\ session.creator = "other")
             => resume.existed
        /\ session.agents <= 1)
  /\ [][(resume.at = "registry" /\ resume'.at = "idle")
          => /\ registry'[resume.name].status = "active"
             /\ registry'[resume.name].pane = PaneOfDir(registry[resume.name].path)
             /\ resume.existed => ~resume.launched]_vars

\* a resume_task call that found the session of another actor is about to
\* return, for a task that was paused: no agent was started by it
C24_Witness ==
  /\ resume.at = "registry"
  /\ resume.existed
  /\ session = [creator |-> "other", agents |-> 1]
  /\ registry["w"].status = "paused"

\* what spawn_worktree_task makes of the current state
Spawned(fail) == SpawnWorktreeTaskOn(Worktrees, "d1", "w", TRUE, fail)

\* C25: when spawn_worktree_task has created the worktree and a later step
\* goes wrong (the setup hook, topic creation, the welcome message, the
\* marker write or the session), the worktree is gone afterwards and the
\* registry has no entry for the task.
\* Violated: only a failed createForumTopic and a failed new-session are
\* rolled back.
C25_WorktreeRolledBack ==
  \A fail \in {"hook", "hook_timeout", "topic", "welcome", "marker", "pane"} :
    ("d1" \notin trees /\ "w" \notin DOMAIN registry)
      => /\ "d1" \notin Spawned(fail).trees
         /\ "w" \notin DOMAIN Spawned(fail).registry

\* C26: spawn_worktree_task on a path that is a worktree already returns
\* failure and changes nothing: no topic, no marker, no session, no registry
\* entry, and the directory as it was.
\* Violated: create_worktree returns the existing path and the spawn goes on.
C26_ExistingWorktreeFailsFast ==
  \A fail \in WorktreeFailures :
    ("d1" \in trees /\ "w" \notin DOMAIN registry)
      => Spawned(fail) = Worktrees

\* C27: at most one daemon process is past check_singleton at any time, and
\* while one is, the PID file names it.
\* Violated: the file is read and written in two steps, and the exit handler
\* removes the file whoever it names.
C27_OneDaemon ==
  /\ Cardinality({p \in Daemons : daemons[p] = "running"}) <= 1
  /\ \A p \in Daemons : daemons[p] = "running" => pidfile = p

\* C28: whenever no write of a persisted JSON file is in progress, also
\* after its writer was killed at any point, the file holds a whole document,
\* the previous one or the new one.
\* Violated: marker files and message-state are written with write_text.
C28_WholeDocuments ==
  \A f \in JsonFiles :
    disk[f].at = "idle" => disk[f].content \in {"prev", "next"}

\* C29: the main loop handles the updates in increasing update_id order,
\* none twice, and none is left out: once every update was fetched and the
\* queue is empty, each update has been handled.
\* Violated: an exception in the handler of one update ends process_updates,
\* and the updates behind it in the batch are never handled.
C29_EachOnceInOrder ==
  /\ \A i, j \in DOMAIN updates.handled :
       i < j => updates.handled[i] < updates.handled[j]
  /\ (updates.queue = <<>> /\ updates.offset = updates.last + 1)
       => updates.handled = IdsFrom(1, updates.last)

\* tool call A has a message in the chat that message-state tracks
Recorded(id) == \E m \in DOMAIN state : state[m].tool_use_id = id

\* C30: a tool call that waits for its permission gets its notification in
\* the end, also when the send of it failed during an outage of the chat
\* service: from any moment at which call A has no result, a moment comes at
\* which A is recorded in message-state or has its result.
\* Violated: check() marks the tool notified as it returns it, and a send
\* that fails is not made again.
C30_EventuallyDelivered ==
  ("A" \in Unanswered("t1")) ~> (Recorded("A") \/ "A" \notin Unanswered("t1"))

\* C31: over the lifetime of a watcher, at most one IdleEvent is emitted for
\* each assistant message id, whatever the order of the text-only records
\* and tool_use records of that and of other messages.
\* Violated: the watcher remembers only the last message id it announced
\* (last_idle_msg_id), and a tool_use record of that message clears it.
C31_OneIdlePerMessage ==
  \A p \in DOMAIN watchers : \A id \in MsgIds \cup {MsgIdOf(q) : q \in Paths} :
    Cardinality({i \in DOMAIN watchers[p].idled : watchers[p].idled[i] = id}) <= 1

\* C32: while the marker file of a directory holds malformed JSON, the error
\* reaches the caller of the registry rebuild, whatever the order in which
\* the markers are found, and the caller of the routing of a notification
\* from that directory when no task is registered for it; the routing sends
\* nothing and no marker file is changed.
\* Violated: scan_for_marker_files catches every exception, so the rebuild
\* returns its count as if the scan had been complete.
C32_CorruptMarkerSurfaces ==
  \A d \in Dirs :
    markers[d].kind = "corrupt" =>
      /\ \A scan \in Scans :
           RebuildRegistryFromMarkers(registry, markers, scan).err # ""
      /\ (PaneOfDir(d) # operator_pane /\ FindTaskByPath(registry, d) = "") =>
           \A res \in TopicResults :
             LET g == SendToChatOrTopic(Routes, operator_pane, PaneOfDir(d), TRUE, res)
             IN g.err = "JSONDecodeError" /\ g.dest = NoSend /\ g.markers = markers

\* the part of C32 on routing
C32_RoutingRaises ==
  \A d \in Dirs :
    (markers[d].kind = "corrupt" /\ PaneOfDir(d) # operator_pane
       /\ FindTaskByPath(registry, d) = "") =>
         \A res \in TopicResults :
           LET g == SendToChatOrTopic(Routes, operator_pane, PaneOfDir(d), TRUE, res)
           IN g.err = "JSONDecodeError" /\ g.dest = NoSend /\ g.markers = markers

\* C33: the splitter ends on every message longer than the limit, and the
\* parts it returns, without their (i/N) markers and with the fences that
\* were closed and opened again at the split points taken out, give the
\* text back, character by character.  Every pass of the loop leaves it or
\* moves current_pos forward, never beyond the end of the text, and when
\* the loop is left the parts give the text back.
C33_RoundTrip ==
  [][(Len(split.text) > MAX_LENGTH) =>
       /\ split'.done \/ split'.pos > split.pos
       /\ split'.pos <= Len(split.text)
       /\ split'.done => Rejoined(split'.chunks) = split.text]_vars

\* a message was split inside a code block, in more than two parts
C33_Witness ==
  /\ split.done
  /\ Len(split.text) > MAX_LENGTH
  /\ Len(split.chunks) > 2
  /\ split.closed > 0

\* C34: every documented command is consumed by the command handler, is
\* acknowledged (a reply, or the prompt handed to the operator, on which the
\* typing indicator is shown) and is not typed into a pane as ordinary
\* input; /recover does what /rebuild-registry does.
\* Violated: handle_command has no branch for /reset and none for /recover,
\* so both fall through to the routing of ordinary messages.
C34_CommandsConsumed ==
  pc = "updates" =>
    \A msg \in CommandMessages, conf \in BOOLEAN, ok \in BOOLEAN :
      LET s == Handled(msg, conf, ok, "")
      IN /\ HandleCommand(Inbound, msg, conf, ok, markers, <<"d1", "d2">>).sent
         /\ Len(s.posts) > Len(posts) \/ Len(s.keys) > Len(keys)
         /\ \A i \in DOMAIN s.keys :
              i > Len(keys) => FormatIncoming(msg.text) \notin SeqToSet(s.keys[i].keys)
         /\ msg.text = "/recover" =>
              s = Handled([msg EXCEPT !.text = "/rebuild-registry"], conf, ok, "")

\* C34 for the commands handle_command has a branch for
C34_DispatchedCommands ==
  pc = "updates" =>
    \A msg \in CommandMessages, conf \in BOOLEAN, ok \in BOOLEAN :
      CommandOf(msg.text) # "" =>
        LET s == Handled(msg, conf, ok, "")
        IN /\ HandleCommand(Inbound, msg, conf, ok, markers, <<"d1", "d2">>).sent
           /\ Len(s.posts) > Len(posts) \/ Len(s.keys) > Len(keys)
           /\ \A i \in DOMAIN s.keys :
                i > Len(keys) => FormatIncoming(msg.text) \notin SeqToSet(s.keys[i].keys)

\* C35: once a permission_prompt entry is handled, no button press on its
\* message and no reply to its message puts keys or text into the pane,
\* whatever the transcript holds.
\* Violated: _handle_reply_to_tracked never reads the handled flag, so a
\* reply to a handled notification whose tool is still pending is typed
\* into the permission dialog.
C35_HandledInjectsNothing ==
  pc = "updates" =>
    \A m \in DOMAIN state :
      (state[m].type = "permission_prompt" /\ state[m].handled) =>
        /\ \A d \in CbData :
             HandleCallbackOn([state |-> state, chat |-> chat, keys |-> keys],
                              files, alive, m, d, FALSE).keys = keys
        /\ \A pick \in PendingPicks(files, state[m].transcript_path) :
             HandleReplyOn([state |-> state, chat |-> chat, keys |-> keys],
                           alive, m, "hi", pick).keys = keys

\* the part of C35 on button presses
C35_HandledPressRejected ==
  pc = "updates" =>
    \A m \in DOMAIN state :
      (state[m].type = "permission_prompt" /\ state[m].handled) =>
        \A d \in CbData :
          HandleCallbackOn([state |-> state, chat |-> chat, keys |-> keys],
                           files, alive, m, d, FALSE)
            = [state |-> state, chat |-> chat, keys |-> keys]

\* a handled notification whose tool has no result yet, in a live pane
C35_HandledStillPending ==
  /\ pc = "updates"
  /\ \E m \in DOMAIN state :
       /\ state[m].type = "permission_prompt"
       /\ state[m].handled
       /\ state[m].pane \in alive
       /\ state[m].tool_use_id \in PendingInTranscript(files, state[m].transcript_path)

\* the tool_use without tool_result that comes first in the transcript (the
\* one whose dialog the agent shows); defined when Unanswered(path) # {}
EarliestPending(path) ==
  LET ls == files[path].lines
      open == Unanswered(path)
      OpenAt(i) == {k \in DOMAIN ls[i].tools : ls[i].tools[k].id \in open}
      i0 == CHOOSE i \in DOMAIN ls :
              /\ OpenAt(i) # {}
              /\ \A j \in DOMAIN ls : OpenAt(j) # {} => i <= j
      k0 == CHOOSE k \in OpenAt(i0) : \A l \in OpenAt(i0) : k <= l
  IN ls[i0].tools[k0].id

\* C36: with several tool_use ids without tool_result in the transcript, a
\* reply to the notification of the earliest of them, its pane existing, goes
\* through the permission dialog whatever the scan of the transcript
\* returns: it is never refused and never typed as plain input.
\* Violated: the scan returns pending.pop(), any element of the set.
C36_EarliestAccepted ==
  pc = "updates" =>
    \A m \in DOMAIN state :
      (/\ state[m].type = "permission_prompt"
       /\ state[m].pane \in alive
       /\ Cardinality(Unanswered(state[m].transcript_path)) > 1
       /\ state[m].tool_use_id = EarliestPending(state[m].transcript_path)) =>
         \A pick \in PendingPicks(files, state[m].transcript_path) :
           /\ ReplyOutcome(state, alive, m, pick) = "prompt"
           /\ Replied(m, pick).keys =
                Append(keys, [pane |-> state[m].pane, keys |-> PromptTextKeys("hi")])

\* C36 when the scan of the transcript collects the entry's tool only
C36_AcceptedWhenAlone ==
  pc = "updates" =>
    \A m \in DOMAIN state :
      (/\ state[m].type = "permission_prompt"
       /\ state[m].pane \in alive
       /\ PendingInTranscript(files, state[m].transcript_path) = {state[m].tool_use_id}) =>
         \A pick \in PendingPicks(files, state[m].transcript_path) :
           /\ ReplyOutcome(state, alive, m, pick) = "prompt"
           /\ Replied(m, pick).keys =
                Append(keys, [pane |-> state[m].pane, keys |-> PromptTextKeys("hi")])

\* two tools wait on two lines and the notification of the first is tracked
C36_TwoPendingLines ==
  /\ pc = "updates"
  /\ \E m \in DOMAIN state :
       /\ state[m].type = "permission_prompt"
       /\ state[m].pane \in alive
       /\ Cardinality(PendingPicks(files, state[m].transcript_path)) > 1
       /\ state[m].tool_use_id = EarliestPending(state[m].transcript_path)

\* C37: when a pause_task or resume_task call has returned, with or without
\* success, the status in the task's marker file is the status of the
\* task's registry entry.
\* Violated: resume_task writes status active into the marker before it
\* creates the session, and returns None without touching the registry when
\* no session can be had.
C37_StatusAgrees ==
  [][\A n \in DOMAIN registry :
       LET dir == registry[n].path
           paused == registry'[n].status = "paused" /\ registry[n].status # "paused"
           resumed == resume.name = n /\ resume.at # "idle" /\ resume'.at = "idle"
       IN (n \in DOMAIN registry' /\ (paused \/ resumed)
             /\ markers[dir].kind = "complete") =>
            marker_status'[dir] = registry'[n].status]_vars

\* C37 for the calls that succeed
C37_AgreesOnSuccess ==
  [][\A n \in DOMAIN registry :
       LET dir == registry[n].path
           paused == registry'[n].status = "paused" /\ registry[n].status # "paused"
           resumed == resume.name = n /\ resume.at = "registry" /\ resume'.at = "idle"
       IN (n \in DOMAIN registry' /\ (paused \/ resumed)
             /\ markers[dir].kind = "complete") =>
            marker_status'[dir] = registry'[n].status]_vars

\* resume_task has returned None for a paused task
C37_ResumeFailed ==
  /\ resume.at = "idle"
  /\ "w" \in DOMAIN registry
  /\ registry["w"].status = "paused"
  /\ marker_status[registry["w"].path] = "active"

\* C38: when spawn_session has created the topic and gets no pane (it
\* closes the topic and returns None), the directory has no complete marker
\* afterwards and the registry has no entry for the task.
\* Violated: the complete marker written in step 4 stays in the directory.
C38_FailedSpawnLeavesNothing ==
  [][(/\ spawn.step = "marker"
      /\ spawn' = NoSpawn
      /\ topics'[spawn.topic - GeneralTopic].status = "closed") =>
        /\ markers'[spawn.dir].kind # "complete"
        /\ spawn.name \notin DOMAIN registry']_vars

\* C38 for spawn_worktree_task, which deletes the worktree and the marker
\* in it
C38_FailedWorktreeLeavesNothing ==
  ("d1" \notin trees /\ "w" \notin DOMAIN registry /\ Len(topics) < MaxTopics) =>
    /\ Spawned("pane").topics[Len(topics) + 1].status = "closed"
    /\ Spawned("pane").markers["d1"].kind # "complete"
    /\ "w" \notin DOMAIN Spawned("pane").registry

\* what the claim rules out: after the failed spawn /rebuild-registry enters
\* the task, with the topic that was closed
C38_RebuildRegistersClosed ==
  /\ pc = "updates"
  /\ "w" \notin DOMAIN registry
  /\ \E d \in Dirs :
       /\ markers[d] = FullMarker("w", markers[d].topic_id)
       /\ topics[markers[d].topic_id - GeneralTopic].status = "closed"
       /\ LET reg == Handled([text |-> "/rebuild-registry", chat |-> "group",
                              topic |-> GeneralTopic, reply_to |-> 0],
                             TRUE, TRUE, "").registry
          IN "w" \in DOMAIN reg /\ reg["w"].topic_id = markers[d].topic_id

\* a registry entry by path, or a pending or complete marker in the directory
Blocked(d) ==
  FindTaskByPath(registry, d) # "" \/ markers[d].kind \in {"pending", "complete"}

\* the routing state with d known to the registry by path only
KnownByPath(d) ==
  [Routes EXCEPT !.registry = ("x" :> TaskData(d, TopicId(1), "", "active")),
                 !.markers = [e \in Dirs |-> NoMarker]]

\* C39: auto-registration calls topic creation at most once for a
\* directory.  In every step of the daemon (a pass, a restart; the steps of
\* the operator's spawns aside) a directory that has a registry entry by
\* path or a pending or complete marker keeps its marker and stays blocked,
\* no topic is created but for a directory that had neither and has its
\* complete marker afterwards, and a directory whose marker was written has
\* a pending or complete marker, also when createForumTopic failed.  A
\* directory that the registry knows by path and that has no marker gets
\* none, from routing and from the discovery scan, whatever createForumTopic
\* would answer.
C39_OncePerDirectory ==
  /\ [][spawn' = spawn =>
          /\ \A d \in Dirs :
               Blocked(d) =>
                 /\ markers'[d] = markers[d]
                 /\ \/ FindTaskByPath(registry', d) # ""
                    \/ markers'[d].kind \in {"pending", "complete"}
          /\ \A d \in Dirs :
               markers'[d] # markers[d] => markers'[d].kind \in {"pending", "complete"}
          /\ \A i \in DOMAIN topics : topics'[i] = topics[i]
          /\ Len(topics') - Len(topics) <=
               Cardinality({d \in Dirs : ~Blocked(d) /\ markers'[d].kind = "complete"})]_vars
  /\ [](\A d \in Dirs, res \in TopicResults :
          PaneOfDir(d) # operator_pane =>
            /\ SendToChatOrTopic(KnownByPath(d), operator_pane, PaneOfDir(d),
                                 TRUE, res).markers = KnownByPath(d).markers
            /\ SendToChatOrTopic(KnownByPath(d), operator_pane, PaneOfDir(d),
                                 TRUE, res).topics = topics
            /\ AutoRegisterDiscovered(KnownByPath(d), operator_pane, watchers, worder,
                                      TRUE, [e \in Dirs |-> res]).markers[d] = NoMarker)

\* auto-registration failed for want of rights in both directories and left
\* their pending markers; the daemon was started again after that, its
\* discovery scan and the routing of both agents' events passed over them:
\* no topic exists and no second warning was sent
C39_Witness ==
  /\ restarts = 1
  /\ ~warned
  /\ Warnings(posts) = 1
  /\ \A d \in Dirs : markers[d].kind = "pending" /\ FindTaskByPath(registry, d) = ""
  /\ topics = <<>>
  /\ spawn = NoSpawn
  /\ Len(chat) = 2
  /\ pc = "updates"

\* C40: an entry a hook process has saved is in the state file until
\* State.remove is called for it, whatever the other writers do.
\* Violated: the daemon flushes the document it holds in memory, which it
\* read once at start, and a hook gives the lock back between its read and
\* its write.
C40_NoEntryLost ==
  \A id \in state_file.saved \ state_file.removed : id \in state_file.content

\* C40 for the moment the save returns: the hook's entry is in the file
C40_SavedOnReturn ==
  [][\A h \in Hooks :
       (state_file.hooks[h].at = "read" /\ state_file'.hooks[h].at = "idle") =>
         state_file.hooks[h].msg_id \in state_file'.content]_vars

\* the daemon has flushed after a hook saved an entry the daemon never read
C40_FlushedOver ==
  \E id \in state_file.saved :
    /\ id \notin state_file.data
    /\ id \notin state_file.removed
    /\ id \notin state_file.content
    /\ state_file.data # {}
    /\ \A h \in Hooks : state_file.hooks[h].at = "idle"

====
